---- MODULE Spec2Model ----
(***************************************************************************)
(* Model of etlutil.data_structures: the recursive container transform     *)
(* engine prune_data and the walk collector.                               *)
(*                                                                         *)
(* A Python value is a record with five fields:                            *)
(*   kind  : "none" | "str" | "int" | "bool"          (primitives)         *)
(*           "dict" | "ordereddict" | "userdict" | "badmap"   (Mappings)   *)
(*           "list" | "tuple"                         (Sequence classes)   *)
(*           "set"  | "frozenset"                     (Set classes)        *)
(*   atom  : the content of a primitive, as a string                       *)
(*   keys  : the keys of a mapping, in insertion order                     *)
(*   items : the values of a mapping (parallel to keys) or the elements    *)
(*           of a sequence                                                 *)
(*   elems : the elements of a set                                         *)
(* "ordereddict" is a subclass of dict (collections.OrderedDict);          *)
(* "userdict" is a Mapping that is no dict and can be built from item      *)
(* pairs (collections.UserDict); "badmap" is a Mapping whose constructor   *)
(* raises (the BadInitMap of the test-suite).                              *)
(***************************************************************************)
EXTENDS Integers, Sequences, FiniteSets, TLC

\* ------------------------------------------------------------------ bounds
MaxWidth == 2
MaxNest == 3
MaxDepth == 1
MaxOffset == 4
MaxCount == 3
MaxSpan == 9
MaxChunk == 4
MaxLook == 2
MaxEntries == 3
MaxMonths == 2

\* ------------------------------------------------------------ value model
Node(k, a, ks, it, el) == [kind |-> k, atom |-> a, keys |-> ks, items |-> it, elems |-> el]

Prim(k, a) == Node(k, a, <<>>, <<>>, {})
MapOf(k, ks, vs) == Node(k, "", ks, vs, {})
SeqOf(k, it) == Node(k, "", <<>>, it, {})
SetOf(k, el) == Node(k, "", <<>>, <<>>, el)

NoneV == Prim("none", "None")
EmptyStr == Prim("str", "")
StrX == Prim("str", "x")
Zero == Prim("int", "0")
FalseV == Prim("bool", "False")

MappingKinds == {"dict", "ordereddict", "userdict", "badmap"}

\* isinstance(obj, dict)
IsDict(obj) == obj.kind \in {"dict", "ordereddict"}
SequenceKinds == {"list", "tuple"}
SetKinds == {"set", "frozenset"}

\* the classes that are instances of collections.abc.Set: set, frozenset, and
\* "fakeset", a Set subclass that keeps a list of items of any type, hashable
\* or not, and is itself unhashable
SetLikeKinds == SetKinds \cup {"fakeset"}
ContainerKinds == MappingKinds \cup SequenceKinds \cup SetLikeKinds

\* isinstance(obj, Mapping)
IsMapping(obj) == obj.kind \in MappingKinds

\* isinstance(obj, Sequence) and not isinstance(obj, str | bytes | bytearray)
IsSequence(obj) == obj.kind \in SequenceKinds

\* isinstance(obj, AbcSet)
IsSetLike(obj) == obj.kind \in SetLikeKinds

\* FakeSet(items): the list is kept in `items`
FakeSetOf(it) == Node("fakeset", "", <<>>, it, {})

\* what `for item in obj` yields for a set-like obj, and len(obj)
SetMembers(obj) ==
    IF obj.kind = "fakeset" THEN {obj.items[i] : i \in DOMAIN obj.items} ELSE obj.elems
SetSize(obj) ==
    IF obj.kind = "fakeset" THEN Len(obj.items) ELSE Cardinality(obj.elems)

\* what a call that raised TypeError while traversing stands for
Raised == Prim("raised", "TypeError")

IsContainer(obj) == obj.kind \in ContainerKinds

\* Optional integers (max_depth, container_depth): None or an int
NoneInt == [none |-> TRUE, n |-> 0]
SomeInt(i) == [none |-> FALSE, n |-> i]


\* --------------------------------------------------------------- equality
\* Python's == on the modelled values: 0 == False; mappings compare by their
\* items whatever the class and the insertion order; set and frozenset compare
\* by their elements; list and tuple compare elementwise within the same class.
RECURSIVE PyEq(_, _)
PyEq(x, y) ==
    CASE IsMapping(x) /\ IsMapping(y) ->
             /\ Len(x.keys) = Len(y.keys)
             /\ \A i \in DOMAIN x.keys : \E j \in DOMAIN y.keys :
                    x.keys[i] = y.keys[j] /\ PyEq(x.items[i], y.items[j])
      [] IsSequence(x) /\ IsSequence(y) ->
             /\ x.kind = y.kind
             /\ Len(x.items) = Len(y.items)
             /\ \A i \in DOMAIN x.items : PyEq(x.items[i], y.items[i])
      [] IsSetLike(x) /\ IsSetLike(y) ->
             \* set.__eq__; for a fakeset Set.__eq__ (tried on the fakeset side):
             \* len(self) == len(other) and every element of self is in other
             LET fake == IF x.kind # "fakeset" /\ y.kind = "fakeset" THEN y ELSE x
                 other == IF x.kind # "fakeset" /\ y.kind = "fakeset" THEN x ELSE y
             IN  /\ SetSize(fake) = SetSize(other)
                 /\ \A e \in SetMembers(fake) : \E f \in SetMembers(other) : PyEq(e, f)
      [] OTHER ->
             \/ x = y
             \/ {x.kind, y.kind} = {"int", "bool"} /\ {x.atom, y.atom} = {"0", "False"}

\* ------------------------------------------------------- removal arguments
\* keys_to_remove / values_to_remove as the caller passes them:
\*   form "none"     : None
\*   form "iterable" : an iterable whose materialised list is `items`
\*   form "callable" : a predicate that is true exactly of the values equal to one of `items`
\*   form "invalid"  : neither None, callable nor iterable (object(), 42)
Arg(f, it) == [form |-> f, items |-> it]

\* (faulty variant) the TypeError of list(obj) is swallowed
make_predicate_never_raises(obj) == FALSE

\* make_predicate: list(obj) raises TypeError
make_predicate_raises(obj) == obj.form = "invalid"

\* make_predicate: the first component applied to a mapping key
key_predicate(obj, k) ==
    CASE obj.form = "none" -> FALSE
      [] OTHER -> \E candidate \in obj.items : k = candidate

\* make_predicate: the first component applied to a value
value_predicate(obj, x) ==
    CASE obj.form = "none" -> FALSE
      [] OTHER -> \E candidate \in obj.items : PyEq(x, candidate)

\* ---------------------------------------------------------------- helpers
\* (faulty variant) emptiness decided by truthiness (`not value`): 0 and False count as empty
is_empty_falsy(value) ==
    CASE value.kind \in {"none", "int", "bool"} -> TRUE
      [] value.kind = "str" -> value.atom = ""
      [] OTHER -> Len(value.items) = 0 /\ Cardinality(value.elems) = 0

\* is_empty: None, "", empty mapping / set / sequence; 0 and False are not empty
is_empty(value) ==
    CASE value.kind = "none" -> TRUE
      [] value.kind = "str" -> value.atom = ""
      [] IsMapping(value) -> Len(value.keys) = 0
      [] IsSetLike(value) -> SetSize(value) = 0
      [] IsSequence(value) -> Len(value.items) = 0
      [] OTHER -> FALSE

\* hash(value) succeeds: primitives, frozensets, tuples of hashable values
RECURSIVE is_hashable(_)
is_hashable(value) ==
    CASE value.kind \in {"none", "str", "int", "bool", "frozenset"} -> TRUE
      [] value.kind = "tuple" -> \A i \in DOMAIN value.items : is_hashable(value.items[i])
      [] OTHER -> FALSE

\* `x == candidate` raises TypeError: Set.__eq__ of a fakeset x compared with a
\* set or frozenset of the same length runs `elem in candidate` for its items in
\* order, which hashes elem; it raises at the first unhashable item unless an
\* earlier item, missing from the candidate, already answered False
eq_raises(x, candidate) ==
    /\ x.kind = "fakeset" /\ candidate.kind \in SetKinds
    /\ Len(x.items) = Cardinality(candidate.elems)
    /\ \E i \in DOMAIN x.items :
          /\ ~is_hashable(x.items[i])
          /\ \A j \in 1..(i - 1) :
                /\ is_hashable(x.items[j])
                /\ \E f \in candidate.elems : PyEq(x.items[j], f)

\* value_predicate(x) raises: any(x == candidate for candidate in items) meets
\* a raising comparison (no candidate can equal such an x before it does)
value_predicate_raises(obj, x) ==
    /\ obj.form = "iterable"
    /\ \E candidate \in obj.items : eq_raises(x, candidate)

\* (faulty variant) off by one: key filtering stops one level early
can_filter_strict(max_depth, container_depth) ==
    max_depth.none \/ (~container_depth.none /\ container_depth.n < max_depth.n)

\* key filtering is allowed when container_depth <= max_depth
can_filter(max_depth, container_depth) ==
    max_depth.none \/ (~container_depth.none /\ container_depth.n <= max_depth.n)

\* recursion into children is allowed when container_depth < max_depth
can_recurse(max_depth, container_depth) ==
    max_depth.none \/ (~container_depth.none /\ container_depth.n < max_depth.n)

\* (0 if container_depth is None else container_depth) + 1
child_depth(container_depth) ==
    SomeInt((IF container_depth.none THEN 0 ELSE container_depth.n) + 1)

\* (faulty variant) at the depth limit a child container collapses to an empty container
\* of its kind, as walk's collector does
passthrough_collapsed(v) ==
    IF IsContainer(v) THEN Node(v.kind, "", <<>>, <<>>, {}) ELSE v

\* `child = v` / `child = item`: the value a container keeps for a child it may
\* not recurse into
passthrough(v) == v

\* dict(result_items) for a dict; obj.__class__(result_items) for a subclass,
\* falling back to dict(result_items) when the constructor raises
rebuild_mapping(obj, ks, vs) ==
    CASE IsDict(obj) -> MapOf("dict", ks, vs)
      [] obj.kind = "userdict" -> MapOf("userdict", ks, vs)
      [] OTHER -> MapOf("dict", ks, vs)

\* (faulty variant) the kept items are put back last first
rebuild_sequence_reversed(obj, it) ==
    LET n == Len(it)
    IN  SeqOf(IF obj.kind = "tuple" THEN "tuple" ELSE "list", [j \in 1..n |-> it[n + 1 - j]])

\* tuple(result_list) for a tuple, list(result_list) otherwise
rebuild_sequence(obj, it) ==
    IF obj.kind = "tuple" THEN SeqOf("tuple", it) ELSE SeqOf("list", it)

\* frozenset(result_set_items) for a frozenset, set(result_set_items) otherwise
rebuild_set(obj, el) ==
    IF obj.kind = "frozenset" THEN SetOf("frozenset", el) ELSE SetOf("set", el)

\* The loops `for ... in obj: ... continue ... append(...)`: drop[i] tells that
\* iteration i hit a `continue`; the result holds the other positions, in order.
RECURSIVE KeptFrom(_, _)
KeptFrom(drop, i) ==
    IF i > Len(drop) THEN <<>>
    ELSE (IF drop[i] THEN <<>> ELSE <<i>>) \o KeptFrom(drop, i + 1)

\* (faulty variant) removing from the container while iterating over it: the element
\* after a removed one is never looked at
RECURSIVE SkipFrom(_, _)
SkipFrom(drop, i) ==
    IF i > Len(drop) THEN <<>>
    ELSE IF drop[i]
         THEN (IF i + 1 <= Len(drop) THEN <<i + 1>> ELSE <<>>) \o SkipFrom(drop, i + 2)
         ELSE <<i>> \o SkipFrom(drop, i + 1)

kept_indices_skipping(drop) == SkipFrom(drop, 1)

kept_indices(drop) == KeptFrom(drop, 1)

\* (faulty variant) the value predicate is applied to every child of a mapping
mapping_value_dropped_any_child(values, child) == value_predicate(values, child)

\* (not is_seq_non_str and not is_set_like) and value_predicate(child)
mapping_value_dropped(values, child) ==
    /\ ~IsSequence(child) /\ ~IsSetLike(child)
    /\ value_predicate(values, child)

\* ---------------------------------------------------------------- process
\* The recursive kernel. a = [keys, values, remove_empty, max_depth]; the result
\* is Raised when a comparison made by value_predicate raised on the way
RECURSIVE process(_, _, _)
process(obj, container_depth, a) ==
    CASE IsMapping(obj) ->
             LET filt == can_filter(a.max_depth, container_depth)
                 rec == can_recurse(a.max_depth, container_depth)
                 skipped == [i \in DOMAIN obj.items |-> filt /\ key_predicate(a.keys, obj.keys[i])]
                 child == [i \in DOMAIN obj.items |->
                              IF skipped[i] THEN obj.items[i]
                              ELSE IF rec THEN process(obj.items[i], child_depth(container_depth), a)
                              ELSE passthrough(obj.items[i])]
                 drop == [i \in DOMAIN obj.items |->
                             \/ skipped[i]
                             \/ a.remove_empty /\ is_empty(child[i])
                             \/ mapping_value_dropped(a.values, child[i])]
                 idx == kept_indices(drop)
             IN  IF \E i \in DOMAIN obj.items : ~skipped[i] /\ child[i] = Raised THEN Raised
                 ELSE rebuild_mapping(obj, [j \in DOMAIN idx |-> obj.keys[idx[j]]],
                                           [j \in DOMAIN idx |-> child[idx[j]]])
      [] IsSequence(obj) ->
             LET rec == can_recurse(a.max_depth, container_depth)
                 child == [i \in DOMAIN obj.items |->
                              IF rec THEN process(obj.items[i], child_depth(container_depth), a)
                              ELSE passthrough(obj.items[i])]
                 raises == [i \in DOMAIN obj.items |->
                               \/ child[i] = Raised
                               \/ /\ ~(a.remove_empty /\ is_empty(child[i]))
                                  /\ value_predicate_raises(a.values, child[i])]
                 drop == [i \in DOMAIN obj.items |->
                             \/ a.remove_empty /\ is_empty(child[i])
                             \/ value_predicate(a.values, child[i])]
                 idx == kept_indices(drop)
             IN  IF \E i \in DOMAIN obj.items : raises[i] THEN Raised
                 ELSE rebuild_sequence(obj, [j \in DOMAIN idx |-> child[idx[j]]])
      [] IsSetLike(obj) ->
             LET rec == can_recurse(a.max_depth, container_depth)
                 child(item) ==
                     IF rec /\ item.kind \notin {"set", "frozenset"}
                     THEN process(item, child_depth(container_depth), a)
                     ELSE passthrough(item)
                 children == {child(item) : item \in SetMembers(obj)}
                 kept == {c \in children :
                             /\ ~(a.remove_empty /\ is_empty(c))
                             /\ ~value_predicate(a.values, c)
                             /\ is_hashable(c)}
             IN  IF \E c \in children :
                        \/ c = Raised
                        \/ /\ ~(a.remove_empty /\ is_empty(c))
                           /\ value_predicate_raises(a.values, c)
                 THEN Raised
                 ELSE rebuild_set(obj, kept)
      [] OTHER -> obj

\* empty_like: an empty container of the same kind as obj
empty_like(obj) ==
    CASE obj.kind \in {"dict", "ordereddict", "userdict"} -> MapOf(obj.kind, <<>>, <<>>)
      [] obj.kind = "badmap" -> MapOf("dict", <<>>, <<>>)
      [] IsSequence(obj) -> IF obj.kind = "tuple" THEN SeqOf("tuple", <<>>) ELSE SeqOf("list", <<>>)
      [] IsSetLike(obj) -> IF obj.kind = "frozenset" THEN SetOf("frozenset", {})
                           ELSE SetOf("set", {})
      [] obj.kind = "str" -> Prim("str", "")
      [] OTHER -> obj

\* What a call yields:
\*   status    : "returned" | "ValueError" | "TypeError"
\*   value     : the returned value (NoneV when the call raised)
\*   same      : the returned object is the argument object itself
\*               (`return data`, or process / empty_like handing back `obj`)
\*   traversed : process(data, ...) was called
Outcome(s, v, id, t) == [status |-> s, value |-> v, same |-> id, traversed |-> t]

\* max_depth is not None and max_depth < 0
depth_is_negative(max_depth) == ~max_depth.none /\ max_depth.n < 0

\* (faulty variant) only None counts as "no predicate": an empty iterable does not
make_predicate_is_empty_none_only(obj) == obj.form = "none"

\* make_predicate: the second component, "this predicate is structurally empty"
make_predicate_is_empty(obj) ==
    CASE obj.form = "none" -> TRUE
      [] obj.form = "callable" -> FALSE
      [] OTHER -> Cardinality(obj.items) = 0

\* key_predicate_is_empty and value_predicate_is_empty and not remove_empty
short_circuit(a) ==
    make_predicate_is_empty(a.keys) /\ make_predicate_is_empty(a.values) /\ ~a.remove_empty

\* (faulty variant) the processed root is returned as it is, empty or not
root_result_unreplaced(data, root_processed, remove_empty) == root_processed

\* return empty_like(data) if remove_empty and is_empty(root_processed) else root_processed
root_result(data, root_processed, remove_empty) ==
    IF remove_empty /\ is_empty(root_processed) THEN empty_like(data) ELSE root_processed

prune_data(data, a) ==
    IF depth_is_negative(a.max_depth) THEN Outcome("ValueError", NoneV, FALSE, FALSE)
    ELSE IF make_predicate_raises(a.keys) \/ make_predicate_raises(a.values)
         THEN Outcome("TypeError", NoneV, FALSE, FALSE)
    ELSE IF short_circuit(a) THEN Outcome("returned", data, TRUE, FALSE)
    ELSE LET root_processed ==
                 process(data, IF a.max_depth.none THEN NoneInt ELSE SomeInt(0), a)
             replaced_by_literal ==
                 a.remove_empty /\ is_empty(root_processed) /\ data.kind = "str"
         IN  IF root_processed = Raised THEN Outcome("TypeError", NoneV, FALSE, TRUE)
             ELSE Outcome("returned", root_result(data, root_processed, a.remove_empty),
                          ~IsContainer(data) /\ ~replaced_by_literal, TRUE)

\* ------------------------------------------------------------------- walk
\* Mapping keys are modelled by strings; IntKey1 stands for the int key 1, which
\* is a different key from the string key "1"
IntKey1 == "int 1"

\* str(k), the label _children_with_labels gives a mapping item
str_of_key(k) == IF k = IntKey1 THEN "1" ELSE k

\* the order of the labels as strings: "1" < "keep" < "secret"
KeyRank(k) ==
    CASE str_of_key(k) = "1" -> 0
      [] str_of_key(k) = "keep" -> 1
      [] OTHER -> 2

\* the positions of a mapping's items in the order _children_with_labels yields
\* them: insertion order, or sorted(items, key=kv[0]), which for str keys and
\* the int key 1 together raises TypeError and is redone with key=str(kv[0]);
\* sorted is stable, so items of equal rank keep their insertion order
mapping_order(obj, sort_keys) ==
    IF ~sort_keys THEN [i \in DOMAIN obj.keys |-> i]
    ELSE CHOOSE p \in [DOMAIN obj.keys -> DOMAIN obj.keys] :
             /\ \A i, j \in DOMAIN p : i # j => p[i] # p[j]
             /\ \A i, j \in DOMAIN p : i < j =>
                    \/ KeyRank(obj.keys[p[i]]) < KeyRank(obj.keys[p[j]])
                    \/ KeyRank(obj.keys[p[i]]) = KeyRank(obj.keys[p[j]]) /\ p[i] < p[j]

\* (faulty variant) the item limit is applied to mappings as well
mapping_taken_limited(n, max_items) ==
    IF max_items.none THEN n
    ELSE IF max_items.n >= 0 THEN (IF max_items.n >= n THEN n ELSE max_items.n)
    ELSE (IF n + max_items.n > 0 THEN n + max_items.n ELSE 0)

\* how many items of a mapping are taken: all (max_items=None is passed)
mapping_taken(n, max_items) == n

\* (faulty variant) the limit is off by one: items[:max_items + 1]
taken_one_more(n, max_items) ==
    IF max_items.none \/ max_items.n + 1 >= n THEN n ELSE max_items.n + 1

\* len(items_seq[:max_items]) for a container of n items: the first max_items
\* ones, and for a negative max_items all but the last -max_items ones
taken(n, max_items) ==
    IF max_items.none THEN n
    ELSE IF max_items.n >= 0 THEN (IF max_items.n >= n THEN n ELSE max_items.n)
    ELSE (IF n + max_items.n > 0 THEN n + max_items.n ELSE 0)

\* elems[:max_items] for a set: the elements taken are the first ones of
\* sorted(elems) or of the set's iteration order; which ones these are is left
\* open, so every subset of the right size is a possible outcome
set_children(obj, max_items) ==
    {t \in SUBSET obj.elems : Cardinality(t) = taken(Cardinality(obj.elems), max_items)}

\* (faulty variant) at the depth limit every container collapses to an empty list
collapsed_to_list(obj) ==
    IF obj.kind \in ContainerKinds THEN SeqOf("list", <<>>) ELSE obj

\* _collect_data at the depth limit: an empty container of the same kind
collapsed(obj) ==
    CASE IsMapping(obj) -> MapOf("dict", <<>>, <<>>)
      [] IsSequence(obj) -> IF obj.kind = "list" THEN SeqOf("list", <<>>) ELSE SeqOf("tuple", <<>>)
      [] IsSetLike(obj) -> IF obj.kind = "set" THEN SetOf("set", {}) ELSE SetOf("frozenset", {})
      [] OTHER -> obj

\* (faulty variant) the depth limit is tested with depth > max_depth
depth_reached_late(max_depth, depth) == ~max_depth.none /\ depth > max_depth.n

\* max_depth is not None and depth >= max_depth
depth_reached(max_depth, depth) == ~max_depth.none /\ depth >= max_depth.n

\* (faulty variant) the original key is used in result[...]
result_key_original(k) == k

\* the key of result[label] = ...: the label, str(k)
result_key(k) == str_of_key(k)

\* result = {}; for label, child in children: result[label] = child
\* labels: the labels in order; vs: the collected children in the same order.
\* A label met again keeps its first position and takes the later value.
collected_mapping(labels, vs) ==
    LET first == KeptFrom([i \in DOMAIN labels |->
                              \E j \in 1..(i - 1) : labels[j] = labels[i]], 1)
        last(l) == CHOOSE i \in DOMAIN labels :
                       labels[i] = l /\ \A j \in DOMAIN labels : j > i => labels[j] # l
    IN  MapOf("dict", [j \in DOMAIN first |-> labels[first[j]]],
                      [j \in DOMAIN first |-> vs[last(labels[first[j]])]])

\* _collect_data: the set of values the collector may return for obj at `depth`;
\* o = [max_depth, max_items_per_container, sort_keys]
RECURSIVE _collect_data(_, _, _)
_collect_data(obj, o, depth) ==
    IF depth_reached(o.max_depth, depth) THEN {collapsed(obj)}
    ELSE CASE IsMapping(obj) ->
                  LET all == mapping_order(obj, o.sort_keys)
                      n == mapping_taken(Len(all), o.max_items_per_container)
                      ord == [i \in 1..n |-> all[i]]
                      sub == [i \in DOMAIN ord |-> _collect_data(obj.items[ord[i]], o, depth + 1)]
                  IN  {collected_mapping([i \in DOMAIN ord |-> result_key(obj.keys[ord[i]])], vs) :
                          vs \in {t \in [DOMAIN ord -> UNION {sub[i] : i \in DOMAIN ord}] :
                                     \A i \in DOMAIN ord : t[i] \in sub[i]}}
           [] IsSequence(obj) ->
                  LET n == taken(Len(obj.items), o.max_items_per_container)
                      sub == [i \in 1..n |-> _collect_data(obj.items[i], o, depth + 1)]
                  IN  {SeqOf(IF obj.kind = "tuple" THEN "tuple" ELSE "list", vs) :
                          vs \in {t \in [1..n -> UNION {sub[i] : i \in 1..n}] :
                                     \A i \in 1..n : t[i] \in sub[i]}}
           [] IsSetLike(obj) ->
                  UNION {
                      LET sub == [e \in chosen |-> _collect_data(e, o, depth + 1)]
                      IN  {SetOf(IF obj.kind = "frozenset" THEN "frozenset" ELSE "set",
                                 {pick[e] : e \in chosen}) :
                              pick \in {t \in [chosen -> UNION {sub[e] : e \in chosen}] :
                                           \A e \in chosen : t[e] \in sub[e]}}
                      : chosen \in set_children(obj, o.max_items_per_container)}
           [] OTHER -> {obj}


\* ---------------------------------------------------- the tree printer
\* a label: str(k) for a mapping item, "[i]" for item i of a sequence or set
KeyLabel(k) == [key |-> str_of_key(k), index |-> 0 - 1]
IndexLabel(i) == [key |-> "", index |-> i]

\* the place of an element in sorted(elems): None, 0 and "x" are not mutually
\* orderable, so the sort is redone with key=str, giving "0" < "None" < "x"
ElemRank(v) ==
    CASE v = Zero -> 0
      [] v = NoneV -> 1
      [] v = StrX -> 2
      [] OTHER -> 3

\* list(obj) for a set, then sorted(elems) when set_order is "sorted"; the
\* iteration order of the set itself is the environment's: `iteration` tells
\* whether it runs up or down the ranks
set_elements(obj, set_order, iteration) ==
    LET n == Cardinality(obj.elems)
        up == set_order = "sorted" \/ iteration = "up"
    IN  CHOOSE q \in [1..n -> obj.elems] :
            /\ \A i, j \in 1..n : i # j => q[i] # q[j]
            /\ \A i, j \in 1..n : i < j =>
                   IF up THEN ElemRank(q[i]) <= ElemRank(q[j])
                   ELSE ElemRank(q[i]) >= ElemRank(q[j])

\* _children_with_labels(obj, sort_keys=..., set_order=..., max_items=...):
\* the (label, child) pairs in order; o = [sort_keys, set_order, iteration, ...]
_children_with_labels(obj, o, max_items) ==
    CASE IsMapping(obj) ->
             LET ord == mapping_order(obj, o.sort_keys)
             IN  [i \in DOMAIN ord |-> [label |-> KeyLabel(obj.keys[ord[i]]), child |-> obj.items[ord[i]]]]
      [] IsSequence(obj) ->
             [i \in 1..taken(Len(obj.items), max_items) |->
                 [label |-> IndexLabel(i - 1), child |-> obj.items[i]]]
      [] IsSetLike(obj) ->
             LET elems == set_elements(obj, o.set_order, o.iteration)
             IN  [i \in 1..taken(Len(elems), max_items) |->
                     [label |-> IndexLabel(i - 1), child |-> elems[i]]]
      [] OTHER -> <<>>

\* _node_tag(obj, show_lengths=False); "" for a primitive
_node_tag(obj) ==
    CASE IsMapping(obj) -> "[dict]"
      [] IsSequence(obj) -> "[list]"
      [] IsSetLike(obj) -> "[set]"
      [] OTHER -> ""

\* a written line: the nesting its prefix shows, the label, the tag of a
\* container or the rendered value of a primitive, and the connector used
Line(depth, label, tag, value, is_last) ==
    [depth |-> depth, label |-> label, tag |-> tag, value |-> value, is_last |-> is_last]
NoLabel == [key |-> "", index |-> 0 - 1]

\* (faulty variant) the printer stops one level late
print_depth_reached_late(max_depth, depth) == ~max_depth.none /\ depth > max_depth.n

\* the printer's depth limit: max_depth is not None and depth >= max_depth
print_depth_reached(max_depth, depth) == ~max_depth.none /\ depth >= max_depth.n

\* _print_tree(obj, path, prefix, is_root, ...): the lines handed to writer;
\* print_children is its loop over the children from position idx on
RECURSIVE _print_tree(_, _, _, _)
RECURSIVE print_children(_, _, _, _)
print_children(children, idx, path, o) ==
    IF idx > Len(children) THEN <<>>
    ELSE LET label == children[idx].label
             child == children[idx].child
             is_last == idx = Len(children)
             child_tag == _node_tag(child)
         IN  (IF child_tag # ""
              THEN <<Line(Len(path), label, child_tag, NoneV, is_last)>>
                   \o _print_tree(child, Append(path, label), FALSE, o)
              ELSE <<Line(Len(path), label, "", child, is_last)>>)
             \o print_children(children, idx + 1, path, o)

_print_tree(obj, path, is_root, o) ==
    LET depth == Len(path)
        tag == _node_tag(obj)
        root_line == IF is_root THEN <<Line(depth, NoLabel, tag, NoneV, TRUE)>> ELSE <<>>
    IN  IF tag # ""
        THEN IF print_depth_reached(o.max_depth, depth) THEN root_line
             ELSE root_line
                  \o print_children(_children_with_labels(obj, o, o.max_items_per_container),
                                    1, path, o)
        ELSE <<Line(depth, NoLabel, "", obj, TRUE)>>

\* the children _collect_data takes from _children_with_labels, in the order
\* it meets them, each with the depth of the container it belongs to
RECURSIVE collect_visits(_, _, _)
RECURSIVE collect_visits_from(_, _, _, _)
collect_visits_from(children, idx, o, depth) ==
    IF idx > Len(children) THEN <<>>
    ELSE <<[depth |-> depth, label |-> children[idx].label, child |-> children[idx].child]>>
         \o (IF IsContainer(children[idx].child)
             THEN collect_visits(children[idx].child, o, depth + 1)
             ELSE <<>>)
         \o collect_visits_from(children, idx + 1, o, depth)

collect_visits(obj, o, depth) ==
    IF depth_reached(o.max_depth, depth) \/ ~IsContainer(obj) THEN <<>>
    ELSE collect_visits_from(
             _children_with_labels(obj, o, IF IsMapping(obj) THEN NoneInt
                                           ELSE o.max_items_per_container),
             1, o, depth)

\* ------------------------------------------------------- input universe
AtomVals == {NoneV, EmptyStr, StrX, Zero, FalseV}
KeyNames == {"secret", "keep"}

SeqsUpTo(S, n) == UNION {[1..m -> S] : m \in 0..n}

\* key sequences of a mapping literal: distinct keys, in any insertion order
KeySeqs(n) == {ks \in [1..n -> KeyNames] : \A i, j \in 1..n : ks[i] = ks[j] => i = j}

\* a Python set holds no two equal elements: 0 and False never together
SetElems(S, n) == {e \in SUBSET S : Cardinality(e) <= n /\ ~({Zero, FalseV} \subseteq e)}

\* every container holding at most MaxWidth primitives
Flat ==
    {SeqOf(k, s) : k \in SequenceKinds, s \in SeqsUpTo(AtomVals, MaxWidth)}
    \cup UNION {{MapOf(k, ks, s) : k \in MappingKinds, ks \in KeySeqs(Len(s))} :
                   s \in {t \in SeqsUpTo(AtomVals, MaxWidth) : Len(t) <= Cardinality(KeyNames)}}
    \cup {SetOf(k, e) : k \in SetKinds, e \in SetElems(AtomVals, MaxWidth)}

\* the containers around the value c: c alone in a list, a tuple, a dict, a set
\* or a frozenset, and c beside a "secret" entry in a dict
Wrap(c) ==
    {SeqOf(k, <<c>>) : k \in SequenceKinds}
    \cup {MapOf("dict", <<"keep">>, <<c>>)}
    \cup {MapOf("dict", <<"secret", "keep">>, <<Zero, c>>)}
    \cup (IF is_hashable(c) THEN {SetOf(k, {c}) : k \in SetKinds} ELSE {})

\* nestings of at most n containers around None, 0 or an empty container
RECURSIVE Nested(_)
Nested(n) ==
    IF n = 0 THEN {NoneV, Zero}
    ELSE {NoneV, Zero}
         \cup {x \in Flat : Len(x.items) = 0 /\ x.elems = {}}
         \cup UNION {Wrap(c) : c \in Nested(n - 1)}

Universe == AtomVals \cup Flat \cup Nested(MaxNest)

\* fakesets: empty, of hashable items, of unhashable items (a list, a dict, a
\* tuple holding a list, another fakeset), and of a frozenset
FakeSets ==
    {FakeSetOf(<<>>),
     FakeSetOf(<<Zero>>),
     FakeSetOf(<<SeqOf("list", <<Zero>>)>>),
     FakeSetOf(<<SeqOf("list", <<NoneV>>)>>),
     FakeSetOf(<<Zero, SeqOf("list", <<Zero>>)>>),
     FakeSetOf(<<SeqOf("tuple", <<Zero, SeqOf("list", <<NoneV>>)>>)>>),
     FakeSetOf(<<MapOf("dict", <<"secret">>, <<Zero>>)>>),
     FakeSetOf(<<FakeSetOf(<<Zero>>)>>),
     FakeSetOf(<<SetOf("frozenset", {NoneV})>>),
     FakeSetOf(<<StrX, SetOf("frozenset", {NoneV}), SeqOf("tuple", <<NoneV, FalseV>>)>>)}

\* a fakeset alone, or inside lists, tuples and dicts
FakeSetUniverse ==
    FakeSets
    \cup UNION {Wrap(c) : c \in FakeSets}
    \cup UNION {Wrap(SeqOf("list", <<c>>)) : c \in FakeSets}

\* the arguments a caller may pass
KeyArgs ==
    {Arg("none", {}), Arg("iterable", {}), Arg("callable", {"secret"}), Arg("invalid", {})}

ValueArgs ==
    {Arg("none", {}), Arg("iterable", {}),
     Arg("iterable", {Zero, SeqOf("list", <<>>), MapOf("dict", <<>>, <<>>), SetOf("set", {Zero})}),
     Arg("invalid", {})}

DepthArgs == {NoneInt} \cup {SomeInt(d) : d \in -1..MaxDepth}

PruneArgs ==
    [keys : KeyArgs, values : ValueArgs, remove_empty : BOOLEAN, max_depth : DepthArgs]

\* the options a caller may pass to walk
WalkOpts ==
    [max_depth : {NoneInt} \cup {SomeInt(d) : d \in -1..(MaxDepth + 1)},
     max_items_per_container : {NoneInt} \cup {SomeInt(n) : n \in -1..MaxWidth},
     sort_keys : BOOLEAN]

\* the options of a printing walk: set_order as well, and the iteration order
\* of sets, which matters only when they are not sorted
PrintOpts ==
    {o \in [max_depth : {NoneInt} \cup {SomeInt(d) : d \in 0..MaxDepth},
            max_items_per_container : {NoneInt} \cup {SomeInt(n) : n \in -1..MaxWidth},
            sort_keys : BOOLEAN,
            set_order : {"sorted", "stable"},
            iteration : {"up", "down"}] :
        o.set_order = "sorted" => o.iteration = "up"}

\* the inputs walk is exercised on: primitives, lists and tuples of up to
\* MaxWidth + 1 primitives, dicts keyed by "keep", "1" and the int 1 in every
\* insertion order, sets and frozensets, and nestings of these
WalkAtoms == {NoneV, Zero, StrX}
WalkKeys == {"keep", "1", IntKey1}

WalkKeySeqs(n) == {ks \in [1..n -> WalkKeys] : \A i, j \in 1..n : ks[i] = ks[j] => i = j}

WalkFlat ==
    {SeqOf(k, t) : k \in SequenceKinds, t \in SeqsUpTo(WalkAtoms, MaxWidth + 1)}
    \cup UNION {{MapOf("dict", ks, t) : ks \in WalkKeySeqs(Len(t))} :
                   t \in {u \in SeqsUpTo({Zero, StrX}, MaxWidth + 1) : Len(u) <= Cardinality(WalkKeys)}}
    \cup {SetOf(k, e) : k \in SetKinds, e \in SUBSET WalkAtoms}

\* the containers around the value c
WalkWrap(c) ==
    {SeqOf(k, <<c>>) : k \in SequenceKinds}
    \cup {SeqOf("list", <<Zero, c>>)}
    \cup {MapOf("dict", <<"keep">>, <<c>>), MapOf("dict", <<IntKey1>>, <<c>>)}
    \cup (IF is_hashable(c) THEN {SetOf(k, {c}) : k \in SetKinds} ELSE {})

RECURSIVE WalkNested(_)
WalkNested(n) ==
    LET core == {Zero, SeqOf("list", <<Zero, StrX>>), SeqOf("tuple", <<Zero, StrX>>),
                 MapOf("dict", <<"keep">>, <<Zero>>)}
    IN  IF n = 0 THEN core ELSE core \cup UNION {WalkWrap(c) : c \in WalkNested(n - 1)}

WalkUniverse == WalkAtoms \cup WalkFlat \cup WalkNested(MaxNest)

\* ----------------------------------------------------------- the program
VARIABLES
    data,      \* the caller's object, as it is now
    before,    \* deepcopy(data) taken when the last call was made
    call,      \* the function last called: "none" | "prune_data" | "walk"
    args,      \* the arguments of the last prune_data call
    opts,      \* the options of the last walk call
    outcome,   \* what the last call yielded
    pc,        \* "ready" | "returned" | "raised"
    prior      \* the call before the last one, when its result was passed back in

vars == <<data, before, call, args, opts, outcome, pc, prior>>

NoArgs == [keys |-> Arg("none", {}), values |-> Arg("none", {}),
           remove_empty |-> FALSE, max_depth |-> NoneInt]
NoOpts == [max_depth |-> NoneInt, max_items_per_container |-> NoneInt, sort_keys |-> TRUE]
NoOutcome == Outcome("none", NoneV, FALSE, FALSE)
NoCall == [made |-> FALSE, data |-> NoneV, args |-> NoArgs, outcome |-> NoOutcome]

Init ==
    /\ data \in Universe
    /\ before = data
    /\ call = "none"
    /\ args = NoArgs
    /\ opts = NoOpts
    /\ outcome = NoOutcome
    /\ pc = "ready"
    /\ prior = NoCall

\* (faulty variant) the pruning is done in place: the caller's object becomes the result
data_after_prune_in_place(obj, res) == IF res.status = "returned" THEN res.value ELSE obj

\* the caller's object after prune_data ran on it: process only reads obj and
\* appends to its own result_items / result_list / result_set_items
data_after_prune(obj, res) == obj

\* (faulty variant) the item limit is applied with `del obj[max_items:]`
data_after_walk_truncated(obj, res) ==
    IF IsSequence(obj) \/ IsSetLike(obj) THEN res.value ELSE obj

\* the caller's object after walk ran on it: _collect_data and
\* _children_with_labels build new lists (list(obj.items()), sorted(...), slices)
data_after_walk(obj, res) == obj

\* a second call repeats the arguments, possibly one level deeper
SecondArgs(a) ==
    {a} \cup (IF a.max_depth.none THEN {}
              ELSE {[a EXCEPT !.max_depth = SomeInt(a.max_depth.n + 1)]})

\* result = prune_data(data, keys_to_remove, values_to_remove, remove_empty, max_depth=...)
CallPruneData ==
    /\ pc = "ready"
    /\ \E a \in (IF prior.made THEN SecondArgs(prior.args) ELSE PruneArgs) :
          LET res == prune_data(data, a)
          IN  /\ args' = a
              /\ outcome' = res
              /\ pc' = IF res.status = "returned" THEN "returned" ELSE "raised"
              /\ before' = data
              /\ data' = data_after_prune(data, res)
    /\ call' = "prune_data"
    /\ UNCHANGED <<opts, prior>>

\* result = walk(data, print_output=False, max_depth=..., max_items_per_container=..., sort_keys=...)
CallWalk ==
    /\ pc = "ready"
    /\ ~prior.made
    /\ \E o \in WalkOpts : \E collected_data \in _collect_data(data, o, 0) :
          LET res == Outcome("returned", collected_data, FALSE, TRUE)
          IN  /\ opts' = o
              /\ outcome' = res
              /\ before' = data
              /\ data' = data_after_walk(data, res)
    /\ pc' = "returned"
    /\ call' = "walk"
    /\ UNCHANGED <<args, prior>>

\* lines = []; result = walk(data, print_output=True, writer=lines.append, ...):
\* the collected value and the lines written
CallWalkPrinting ==
    /\ pc = "ready"
    /\ ~prior.made
    /\ \E o \in PrintOpts : \E collected_data \in _collect_data(data, o, 0) :
          /\ opts' = o
          /\ outcome' = [status |-> "returned", value |-> collected_data, same |-> FALSE,
                         traversed |-> TRUE, written |-> _print_tree(data, <<>>, TRUE, o)]
          /\ before' = data
          /\ data' = data_after_walk(data, [value |-> collected_data])
    /\ pc' = "returned"
    /\ call' = "walk"
    /\ UNCHANGED <<args, prior>>

\* the caller feeds the value prune_data returned to the next call
PassBack ==
    /\ pc = "returned"
    /\ call = "prune_data"
    /\ ~prior.made
    /\ prior' = [made |-> TRUE, data |-> data, args |-> args, outcome |-> outcome]
    /\ data' = outcome.value
    /\ before' = outcome.value
    /\ outcome' = NoOutcome
    /\ pc' = "ready"
    /\ UNCHANGED <<call, args, opts>>

Next == CallPruneData \/ CallWalk \/ PassBack

Spec == Init /\ [][Next]_vars

\* prune_data called on data that holds a fakeset
InitFakeSet ==
    /\ data \in FakeSetUniverse
    /\ before = data
    /\ call = "none"
    /\ args = NoArgs
    /\ opts = NoOpts
    /\ outcome = NoOutcome
    /\ pc = "ready"
    /\ prior = NoCall

NextPrune == CallPruneData \/ PassBack

\* walk called on the inputs of WalkUniverse
InitWalk ==
    /\ data \in WalkUniverse
    /\ before = data
    /\ call = "none"
    /\ args = NoArgs
    /\ opts = NoOpts
    /\ outcome = NoOutcome
    /\ pc = "ready"
    /\ prior = NoCall

NextWalk == CallWalk

\* single calls of prune_data on the inputs of Universe
NextSingle == CallPruneData

SpecSingle == Init /\ [][NextSingle]_vars

NextPrint == CallWalkPrinting

SpecPrint == InitWalk /\ [][NextPrint]_vars

SpecWalk == InitWalk /\ [][NextWalk]_vars

SpecFakeSet == InitFakeSet /\ [][NextPrune]_vars

\* ------------------------------------------------------------ calendar
\* datetime.date(y, m, d) and the ISO string "YYYY-MM-DD" that stands for it
DateOf(y, m, d) == [y |-> y, m |-> m, d |-> d]
IsoOf(y, m, d) == [yyyy |-> y, mm |-> m, dd |-> d]

IsLeap(y) == y % 4 = 0 /\ (y % 100 # 0 \/ y % 400 = 0)

DaysInMonth(y, m) ==
    CASE m \in {4, 6, 9, 11} -> 30
      [] m = 2 -> IF IsLeap(y) THEN 29 ELSE 28
      [] OTHER -> 31

\* the number of days before January 1st of year y (proleptic Gregorian)
DaysBeforeYear(y) == 365 * (y - 1) + ((y - 1) \div 4) - ((y - 1) \div 100) + ((y - 1) \div 400)

RECURSIVE DaysBeforeMonth(_, _)
DaysBeforeMonth(y, m) == IF m = 1 THEN 0 ELSE DaysBeforeMonth(y, m - 1) + DaysInMonth(y, m - 1)

\* date.toordinal(): 0001-01-01 is day 1, a Monday
toordinal(dt) == DaysBeforeYear(dt.y) + DaysBeforeMonth(dt.y, dt.m) + dt.d

\* date.fromordinal(o), for the years the model reaches
fromordinal(o) ==
    LET y == CHOOSE yy \in 1990..2060 : DaysBeforeYear(yy) < o /\ o <= DaysBeforeYear(yy + 1)
        r == o - DaysBeforeYear(y)
        m == CHOOSE mm \in 1..12 : DaysBeforeMonth(y, mm) < r /\ r <= DaysBeforeMonth(y, mm) + DaysInMonth(y, mm)
    IN  DateOf(y, m, r - DaysBeforeMonth(y, m))

\* date + timedelta(days=k); pendulum's add(days=k)
add_days(dt, k) == fromordinal(toordinal(dt) + k)

\* date.weekday(): Monday is 0
weekday(dt) == (toordinal(dt) - 1) % 7

\* a <= b for dates, and for ISO strings (compared character by character,
\* which for zero-padded four-digit years is field by field)
date_le(a, b) == toordinal(a) <= toordinal(b)
iso_lt(a, b) ==
    \/ a.yyyy < b.yyyy
    \/ a.yyyy = b.yyyy /\ a.mm < b.mm
    \/ a.yyyy = b.yyyy /\ a.mm = b.mm /\ a.dd < b.dd

\* to_date_iso_str / to_date_string: the date written as "YYYY-MM-DD"
to_date_iso_str(dt) == IsoOf(dt.y, dt.m, dt.d)

\* to_date on an ISO string: datetime.fromisoformat(d).date()
to_date(iso) == DateOf(iso.yyyy, iso.mm, iso.dd)

\* (faulty variant) a day past the end of the month reached rolls over into
\* the month after it
add_months_overflowing(dt, k) ==
    LET total == dt.y * 12 + (dt.m - 1) + k
    IN  add_days(DateOf(total \div 12, (total % 12) + 1, 1), dt.d - 1)

\* pendulum add(months=k): the month moves by k, the day is cut to the last
\* day of the month reached
add_months(dt, k) ==
    LET total == dt.y * 12 + (dt.m - 1) + k
        y == total \div 12
        m == (total % 12) + 1
    IN  DateOf(y, m, IF dt.d > DaysInMonth(y, m) THEN DaysInMonth(y, m) ELSE dt.d)

\* pendulum add(years=k): February 29th becomes February 28th in a common year
add_years(dt, k) == add_months(dt, 12 * k)

\* pendulum start_of / end_of for "week" (Monday to Sunday), "month", "year"
start_of_week(dt) == add_days(dt, 0 - weekday(dt))
end_of_week(dt) == add_days(dt, 6 - weekday(dt))
start_of_month(dt) == DateOf(dt.y, dt.m, 1)
end_of_month(dt) == DateOf(dt.y, dt.m, DaysInMonth(dt.y, dt.m))
start_of_year(dt) == DateOf(dt.y, 1, 1)
end_of_year(dt) == DateOf(dt.y, 12, 31)

DateParts == {"DAY", "WEEK", "MONTH", "QUARTER", "YEAR"}

\* (faulty variant) the month is not made zero-based before the division
quarter_month_one_based(target) == (target.m \div 3) * 3 + 1

\* quarter_month = ((target.month - 1) // 3) * 3 + 1
quarter_month(target) == ((target.m - 1) \div 3) * 3 + 1

\* (faulty variant) weeks that start on Sunday
week_frame_from_sunday(target) ==
    <<add_days(target, 0 - ((weekday(target) + 1) % 7)),
      add_days(target, 6 - ((weekday(target) + 1) % 7))>>

\* target.start_of("week"), target.end_of("week")
week_frame(target) == <<start_of_week(target), end_of_week(target)>>

\* What a date function yields: status "returned" with a value, or "ValueError"
DateOutcome(s, v) == [status |-> s, value |-> v]

\* get_relative_date_frame(date_part, n, date_from=date_base): the pair of ISO
\* strings (start, end)
get_relative_date_frame(date_part, n, date_base) ==
    CASE date_part = "DAY" ->
             LET target == add_days(date_base, n)
             IN  DateOutcome("returned", <<to_date_iso_str(target), to_date_iso_str(target)>>)
      [] date_part = "WEEK" ->
             LET target == add_days(date_base, 7 * n)
                 frame == week_frame(target)
             IN  DateOutcome("returned", <<to_date_iso_str(frame[1]), to_date_iso_str(frame[2])>>)
      [] date_part = "MONTH" ->
             LET target == add_months(date_base, n)
             IN  DateOutcome("returned", <<to_date_iso_str(start_of_month(target)),
                                           to_date_iso_str(end_of_month(target))>>)
      [] date_part = "QUARTER" ->
             LET target == add_months(date_base, 3 * n)
                 qm == quarter_month(target)
             IN  DateOutcome("returned",
                             <<to_date_iso_str(start_of_month(DateOf(target.y, qm, 1))),
                               to_date_iso_str(end_of_month(DateOf(target.y, qm + 2, 1)))>>)
      [] date_part = "YEAR" ->
             LET target == add_years(date_base, n)
             IN  DateOutcome("returned", <<to_date_iso_str(start_of_year(target)),
                                           to_date_iso_str(end_of_year(target))>>)
      [] OTHER -> DateOutcome("ValueError", <<>>)

\* ------------------------------------------------ generate_date_array
\* date_start + the delta of the match statement for one unit count:
\* timedelta(days=...), timedelta(weeks=...), relativedelta(months=...) and
\* relativedelta(years=...), which cut the day to the last day of the month
plus_units(dt, units, date_part) ==
    CASE date_part = "DAY" -> add_days(dt, units)
      [] date_part = "WEEK" -> add_days(dt, 7 * units)
      [] date_part = "MONTH" -> add_months(dt, units)
      [] date_part = "QUARTER" -> add_months(dt, 3 * units)
      [] date_part = "YEAR" -> add_years(dt, units)

\* (faulty variant) each date is computed from the one before it
date_current_chained(date_start, interval, step, date_part) ==
    IF step = 0 THEN date_start
    ELSE plus_units(plus_units(date_start, interval * (step - 1), date_part), interval, date_part)

\* date_current = date_start + delta(interval * step)
date_current(date_start, interval, step, date_part) ==
    plus_units(date_start, interval * step, date_part)

\* the date has gone past date_end in the direction of interval
past_end(dt, date_end, interval) ==
    \/ interval > 0 /\ ~date_le(dt, date_end)
    \/ interval < 0 /\ ~date_le(date_end, dt)

\* the while True loop of generate_date_array from step on
RECURSIVE date_list_from(_, _, _, _, _)
date_list_from(date_start, date_end, interval, date_part, step) ==
    LET cur == date_current(date_start, interval, step, date_part)
    IN  IF past_end(cur, date_end, interval) THEN <<>>
        ELSE <<cur>> \o date_list_from(date_start, date_end, interval, date_part, step + 1)

\* generate_date_array(date_start, date_end, interval, date_part); a date_part
\* that no case matches leaves date_current unbound when the loop reads it
generate_date_array(date_start, date_end, interval, date_part) ==
    IF interval = 0 THEN DateOutcome("returned", <<>>)
    ELSE IF date_start = date_end THEN DateOutcome("returned", <<date_start>>)
    ELSE IF past_end(date_start, date_end, interval) THEN DateOutcome("returned", <<>>)
    ELSE IF date_part \notin DateParts THEN DateOutcome("UnboundLocalError", <<>>)
    ELSE DateOutcome("returned", date_list_from(date_start, date_end, interval, date_part, 0))

\* ---------------------------------------------------------- DateRange
\* DateRange(start, end) from two ISO strings: each is parsed and written back
DateRange(date_start, date_end) ==
    [date_start |-> to_date_iso_str(to_date(date_start)),
     date_end |-> to_date_iso_str(to_date(date_end))]

\* an optional day count as int(...) reads it: None is 0
int_or_zero(days) == IF days.none THEN 0 ELSE days.n

\* (faulty variant) only the lookback is checked
lookback_is_negative(lb, lf) == lb < 0

\* if lb < 0 or lf < 0
look_is_negative(lb, lf) == lb < 0 \/ lf < 0

\* DateRange.around_date(date_anchor=..., days_lookback=..., days_lookforward=...)
around_date(date_anchor, days_lookback, days_lookforward) ==
    LET lb == int_or_zero(days_lookback)
        lf == int_or_zero(days_lookforward)
    IN  IF look_is_negative(lb, lf)
        THEN DateOutcome("ValueError", <<>>)
        ELSE DateOutcome("returned",
                         DateRange(to_date_iso_str(add_days(date_anchor, 0 - lb)),
                                   to_date_iso_str(add_days(date_anchor, lf))))

\* DateRange.days_count(): (end - start).days + 1
days_count(self) == toordinal(to_date(self.date_end)) - toordinal(to_date(self.date_start)) + 1

\* (faulty variant) a chunk of chunk_days days counted from the day after its start
date_end_current_exclusive(date_end, date_start_current, chunk_days) ==
    LET far == add_days(date_start_current, chunk_days)
    IN  IF date_le(date_end, far) THEN date_end ELSE far

\* min(date_end, date_start_current + timedelta(days=chunk_days - 1))
date_end_current(date_end, date_start_current, chunk_days) ==
    LET far == add_days(date_start_current, chunk_days - 1)
    IN  IF date_le(date_end, far) THEN date_end ELSE far

\* the while loop of split, from date_start_current on
RECURSIVE split_loop(_, _, _)
split_loop(date_start_current, date_end, chunk_days) ==
    IF ~date_le(date_start_current, date_end)
    THEN <<>>
    ELSE LET chunk_end == date_end_current(date_end, date_start_current, chunk_days)
         IN  <<DateRange(to_date_iso_str(date_start_current), to_date_iso_str(chunk_end))>>
             \o split_loop(add_days(chunk_end, 1), date_end, chunk_days)

\* DateRange.split(chunk_days)
split(self, chunk_days) ==
    IF chunk_days < 1
    THEN DateOutcome("ValueError", <<>>)
    ELSE DateOutcome("returned", split_loop(to_date(self.date_start), to_date(self.date_end), chunk_days))

\* DateRange.extend_to_week_bounds(): back to the Monday of the start's week,
\* forward to the Sunday of the end's week
extend_to_week_bounds(self) ==
    LET start == to_date(self.date_start)
        end == to_date(self.date_end)
        week_start == add_days(start, 0 - weekday(start))
        week_end == add_days(end, 6 - weekday(end))
    IN  DateRange(to_date_iso_str(week_start), to_date_iso_str(week_end))

\* (faulty variant) December is followed by January of the same year
next_month_same_year(end) ==
    IF end.m = 12 THEN DateOf(end.y, 1, 1) ELSE DateOf(end.y, end.m + 1, 1)

\* the first day of the month after end's: after December, January of the
\* next year
next_month(end) ==
    IF end.m = 12 THEN DateOf(end.y + 1, 1, 1) ELSE DateOf(end.y, end.m + 1, 1)

\* DateRange.extend_to_month_bounds()
extend_to_month_bounds(self) ==
    LET start == to_date(self.date_start)
        end == to_date(self.date_end)
        month_start == DateOf(start.y, start.m, 1)
        month_end == add_days(next_month(end), 0 - 1)
    IN  DateRange(to_date_iso_str(month_start), to_date_iso_str(month_end))

\* DateRange.single_calendar_period(date_part, offset, date_anchor)
single_calendar_period(date_part, offset, date_anchor) ==
    LET frame == get_relative_date_frame(date_part, offset, date_anchor)
    IN  IF frame.status = "returned"
        THEN DateOutcome("returned", DateRange(frame.value[1], frame.value[2]))
        ELSE frame

\* --------------------------------------------------------- DateRanges
\* (faulty variant) the period end is cut to date_end whatever trim_last_period says
period_end_always_trimmed(trim_last_period, date_end_period_str, date_end_str) ==
    IF iso_lt(date_end_str, date_end_period_str) THEN date_end_str ELSE date_end_period_str

\* if trim_last_period and date_end_period_str > date_end_str: date_end_period_str = date_end_str
period_end(trim_last_period, date_end_period_str, date_end_str) ==
    IF trim_last_period /\ iso_lt(date_end_str, date_end_period_str)
    THEN date_end_str
    ELSE date_end_period_str

\* the ranges built for a sequence of offsets; the first offset whose frame
\* raises ends the call with that error
ranges_for(date_part, offsets, date_end, trim) ==
    LET date_end_str == to_date_iso_str(date_end)
        frame(k) == get_relative_date_frame(date_part, offsets[k], date_end)
    IN  IF \E k \in DOMAIN offsets : frame(k).status # "returned"
        THEN DateOutcome("ValueError", <<>>)
        ELSE DateOutcome("returned",
                         [k \in DOMAIN offsets |->
                             DateRange(frame(k).value[1],
                                       period_end(trim, frame(k).value[2], date_end_str))])

\* for i in range(count): offset = -i
count_offsets(count) == [k \in 1..(IF count < 0 THEN 0 ELSE count) |-> 0 - (k - 1)]

\* DateRanges.calendar_periods(date_part, count, date_end, trim_last_period)
calendar_periods(date_part, count, date_end, trim_last_period) ==
    ranges_for(date_part, count_offsets(count), date_end, trim_last_period)

\* (faulty variant) the offsets stop one short of offset_end
offset_range_exclusive(offset_start, offset_end) ==
    [k \in 1..(IF offset_start - offset_end < 0 THEN 0 ELSE offset_start - offset_end) |->
        offset_start - (k - 1)]

\* range(offset_start, offset_end - 1, -1)
offset_range(offset_start, offset_end) ==
    [k \in 1..(IF offset_start - offset_end + 1 < 0 THEN 0 ELSE offset_start - offset_end + 1) |->
        offset_start - (k - 1)]

\* DateRanges.offset_range_buckets(date_part, offset_start, offset_end, date_end):
\* the period end is cut to date_end whenever it lies beyond it
offset_range_buckets(date_part, offset_start, offset_end, date_end) ==
    ranges_for(date_part, offset_range(offset_start, offset_end), date_end, TRUE)

\* (faulty variant) a chunk reaching chunk_days days back from its end
date_start_current_exclusive(date_start_total, date_end_cur, chunk_days) ==
    LET far == add_days(date_end_cur, 0 - chunk_days)
    IN  IF date_le(far, date_start_total) THEN date_start_total ELSE far

\* max(date_start_total, date_end_current - timedelta(days=chunk_days - 1))
date_start_current(date_start_total, date_end_cur, chunk_days) ==
    LET far == add_days(date_end_cur, 0 - (chunk_days - 1))
    IN  IF date_le(far, date_start_total) THEN date_start_total ELSE far

\* the while loop of split_lookback_period, from date_end_current back
RECURSIVE lookback_loop(_, _, _)
lookback_loop(date_end_cur, date_start_total, chunk_days) ==
    IF ~date_le(date_start_total, date_end_cur)
    THEN <<>>
    ELSE LET chunk_start == date_start_current(date_start_total, date_end_cur, chunk_days)
         IN  <<DateRange(to_date_iso_str(chunk_start), to_date_iso_str(date_end_cur))>>
             \o lookback_loop(add_days(chunk_start, 0 - 1), date_start_total, chunk_days)

\* DateRanges.split_lookback_period(total_days, chunk_days, date_end)
split_lookback_period(total_days, chunk_days, date_end) ==
    IF chunk_days < 1
    THEN DateOutcome("ValueError", <<>>)
    ELSE DateOutcome("returned",
                     lookback_loop(date_end, add_days(date_end, 0 - (total_days - 1)), chunk_days))

\* ------------------------------------------------- the date functions
\* the dates o1..o2 given by their first and last day
DatesBetween(a, b) == {fromordinal(o) : o \in toordinal(a)..toordinal(b)}

\* anchor dates: the turn of the year 2023/2024, the end of February 2024 (a
\* leap year) to the start of the second quarter, the end of a common-year
\* February, days 30 and 31, and the other quarter boundaries
AnchorDates ==
    DatesBetween(DateOf(2023, 12, 25), DateOf(2024, 1, 8))
    \cup DatesBetween(DateOf(2024, 2, 26), DateOf(2024, 3, 3))
    \cup DatesBetween(DateOf(2024, 3, 28), DateOf(2024, 4, 2))
    \cup {DateOf(2023, 2, 28), DateOf(2024, 1, 31), DateOf(2024, 5, 31), DateOf(2024, 6, 15),
          DateOf(2024, 6, 30), DateOf(2024, 7, 1), DateOf(2024, 8, 31), DateOf(2024, 9, 30),
          DateOf(2024, 10, 1), DateOf(2024, 10, 31)}

\* date_part as a caller may pass it: the five literals and a rejected one
DatePartArgs == DateParts \cup {"month"}

Offsets == (0 - MaxOffset)..MaxOffset

\* counts and bucket offsets, the ones a caller should not pass included
Counts == (0 - 1)..MaxCount
BucketOffsets == (0 - MaxCount)..(MaxCount - 1)

\* chunk sizes, the rejected 0 included, and lengths of a lookback in days
ChunkDays == 0..MaxChunk
TotalDays == (0 - 1)..MaxSpan

\* optional look-back and look-forward day counts, a rejected -1 included
LookDays == {NoneInt} \cup {SomeInt(k) : k \in (0 - 1)..MaxLook}

\* the ranges split is called on: of 1 to MaxSpan days, and ones that end
\* before they start
SplitRanges ==
    {DateRange(to_date_iso_str(a), to_date_iso_str(add_days(a, k))) :
        a \in AnchorDates, k \in (0 - 2)..(MaxSpan - 1)}

InitDate ==
    /\ data = NoneV
    /\ before = NoneV
    /\ call = "none"
    /\ args = NoArgs
    /\ opts = NoOpts
    /\ outcome = NoOutcome
    /\ pc = "ready"
    /\ prior = NoCall

\* get_relative_date_frame(date_part, n, date_from=date_from)
CallGetRelativeDateFrame ==
    /\ pc = "ready"
    /\ \E date_part \in DatePartArgs, n \in Offsets, date_from \in AnchorDates :
          LET res == get_relative_date_frame(date_part, n, date_from)
          IN  /\ args' = [date_part |-> date_part, n |-> n, date_from |-> date_from]
              /\ outcome' = res
              /\ pc' = IF res.status = "returned" THEN "returned" ELSE "raised"
    /\ call' = "get_relative_date_frame"
    /\ UNCHANGED <<data, before, opts, prior>>

\* start dates of a generated array: month ends of 31, 30, 29 and 28 days, a
\* year end and a day in mid-month
ArrayStarts ==
    {DateOf(2023, 2, 28), DateOf(2023, 12, 31), DateOf(2024, 1, 31), DateOf(2024, 2, 29),
     DateOf(2024, 3, 31), DateOf(2024, 6, 15), DateOf(2024, 9, 30)}

\* end dates around a start: up to MaxSpan days away, and up to MaxMonths
\* months away, on the day reached or the day before it
ArrayEnds(date_start) ==
    {add_days(date_start, k) : k \in (0 - MaxSpan)..MaxSpan}
    \cup {add_days(add_months(date_start, j), e) : j \in (0 - MaxMonths)..MaxMonths, e \in {0 - 1, 0}}

\* intervals, 0 included
Intervals == {0 - 2, 0 - 1, 0, 1, 2}

\* what a date call leaves behind
Returned(name, a, res) ==
    /\ call' = name
    /\ args' = a
    /\ outcome' = res
    /\ pc' = IF res.status = "returned" THEN "returned" ELSE "raised"
    /\ UNCHANGED <<data, before, opts, prior>>

\* self.split(chunk_days)
CallSplit ==
    /\ pc = "ready"
    /\ \E self \in SplitRanges, chunk_days \in ChunkDays :
          Returned("split", [self |-> self, chunk_days |-> chunk_days], split(self, chunk_days))

\* generate_date_array(date_start, date_end, interval, date_part)
CallGenerateDateArray ==
    /\ pc = "ready"
    /\ \E date_start \in ArrayStarts, interval \in Intervals, date_part \in DatePartArgs :
          \E date_end \in ArrayEnds(date_start) :
              Returned("generate_date_array",
                       [date_start |-> date_start, date_end |-> date_end,
                        interval |-> interval, date_part |-> date_part],
                       generate_date_array(date_start, date_end, interval, date_part))

\* self.extend_to_week_bounds()
CallExtendToWeekBounds ==
    /\ pc = "ready"
    /\ \E self \in SplitRanges :
          Returned("extend_to_week_bounds", [self |-> self],
                   DateOutcome("returned", extend_to_week_bounds(self)))

\* self.extend_to_month_bounds()
CallExtendToMonthBounds ==
    /\ pc = "ready"
    /\ \E self \in SplitRanges :
          Returned("extend_to_month_bounds", [self |-> self],
                   DateOutcome("returned", extend_to_month_bounds(self)))

\* DateRange.around_date(date_anchor=..., days_lookback=..., days_lookforward=...)
CallAroundDate ==
    /\ pc = "ready"
    /\ \E date_anchor \in AnchorDates, lb \in LookDays, lf \in LookDays :
          Returned("around_date",
                   [date_anchor |-> date_anchor, days_lookback |-> lb, days_lookforward |-> lf],
                   around_date(date_anchor, lb, lf))

\* DateRange.single_calendar_period(date_part, offset, date_anchor)
CallSingleCalendarPeriod ==
    /\ pc = "ready"
    /\ \E date_part \in DatePartArgs, offset \in Offsets, date_anchor \in AnchorDates :
          Returned("single_calendar_period",
                   [date_part |-> date_part, offset |-> offset, date_anchor |-> date_anchor],
                   single_calendar_period(date_part, offset, date_anchor))

\* DateRanges().calendar_periods(date_part, count, date_end, trim_last_period)
CallCalendarPeriods ==
    /\ pc = "ready"
    /\ \E date_part \in DatePartArgs, count \in Counts, date_end \in AnchorDates,
           trim_last_period \in BOOLEAN :
          Returned("calendar_periods",
                   [date_part |-> date_part, count |-> count, date_end |-> date_end,
                    trim_last_period |-> trim_last_period],
                   calendar_periods(date_part, count, date_end, trim_last_period))

\* DateRanges().offset_range_buckets(date_part, offset_start, offset_end, date_end)
CallOffsetRangeBuckets ==
    /\ pc = "ready"
    /\ \E date_part \in DatePartArgs, offset_start \in BucketOffsets,
           offset_end \in BucketOffsets, date_end \in AnchorDates :
          Returned("offset_range_buckets",
                   [date_part |-> date_part, offset_start |-> offset_start,
                    offset_end |-> offset_end, date_end |-> date_end],
                   offset_range_buckets(date_part, offset_start, offset_end, date_end))

\* DateRanges().split_lookback_period(total_days, chunk_days, date_end)
CallSplitLookbackPeriod ==
    /\ pc = "ready"
    /\ \E total_days \in TotalDays, chunk_days \in ChunkDays, date_end \in AnchorDates :
          Returned("split_lookback_period",
                   [total_days |-> total_days, chunk_days |-> chunk_days, date_end |-> date_end],
                   split_lookback_period(total_days, chunk_days, date_end))

NextDate ==
    \/ CallGetRelativeDateFrame
    \/ CallSplit
    \/ CallAroundDate
    \/ CallSingleCalendarPeriod
    \/ CallCalendarPeriods
    \/ CallOffsetRangeBuckets
    \/ CallSplitLookbackPeriod
    \/ CallExtendToWeekBounds
    \/ CallExtendToMonthBounds
    \/ CallGenerateDateArray

SpecDate == InitDate /\ [][NextDate]_vars

\* ------------------------------------------- move_unknown_keys_to_extra
\* A string is the sequence of the pieces it is written with; no piece is the
\* beginning of another, so two sequences are the same string exactly when
\* they are equal, and startswith is being a prefix.
Pieces == {"1", "2", "3", "__int", "_original", "a", "e"}

\* the order of two different pieces as strings: "1" < "2" < "3" < "_" < "a" < "e",
\* and "__int" < "_original"
PieceRank(piece) ==
    CASE piece = "1" -> 1
      [] piece = "2" -> 2
      [] piece = "3" -> 3
      [] piece = "__int" -> 4
      [] piece = "_original" -> 5
      [] piece = "a" -> 6
      [] piece = "e" -> 7

\* a < b for strings
RECURSIVE str_lt(_, _)
str_lt(a, b) ==
    IF b = <<>> THEN FALSE
    ELSE IF a = <<>> THEN TRUE
    ELSE IF Head(a) = Head(b) THEN str_lt(Tail(a), Tail(b))
    ELSE PieceRank(Head(a)) < PieceRank(Head(b))

\* s.startswith(prefix)
startswith(str, prefix) ==
    Len(prefix) <= Len(str) /\ SubSeq(str, 1, Len(prefix)) = prefix

\* a dict key: a str, or an int whose str() is given
StrKey(str) == [type |-> "str", str |-> str]
IntKey(str) == [type |-> "int", str |-> str]

\* a dict is the sequence of its items in insertion order
Item(k, v) == [k |-> k, v |-> v]
dict_keys(d) == {d[i].k : i \in DOMAIN d}
dict_get(d, k) == (CHOOSE i \in DOMAIN d : d[i].k = k)
dict_value(d, k) == d[dict_get(d, k)].v

\* d[k] = v: an existing key keeps its place and takes the new value
dict_set(d, k, v) ==
    IF k \in dict_keys(d)
    THEN [i \in DOMAIN d |-> IF d[i].k = k THEN Item(k, v) ELSE d[i]]
    ELSE Append(d, Item(k, v))

\* d.pop(k)
dict_pop(d, k) == SelectSeq(d, LAMBDA it : it.k # k)

\* the sort key (str(k), 0 if isinstance(k, str) else 1, type(k).__name__)
\* orders item a strictly before item b
collision_key_lt(a, b) ==
    \/ str_lt(a.k.str, b.k.str)
    \/ a.k.str = b.k.str /\ a.k.type = "str" /\ b.k.type # "str"

\* list.sort / sorted: stable, by insertion
RECURSIVE sorted_by_collision_key(_)
sorted_by_collision_key(items) ==
    IF items = <<>> THEN <<>>
    ELSE LET rest == sorted_by_collision_key(SubSeq(items, 1, Len(items) - 1))
             last == items[Len(items)]
             not_after == SelectSeq(rest, LAMBDA it : ~collision_key_lt(last, it))
             later == SelectSeq(rest, LAMBDA it : collision_key_lt(last, it))
         IN  not_after \o <<last>> \o later

\* original_key.__class__.__name__.lower() after "__"
type_suffix(k) == <<"__int">>

\* the name an item gets in _resolve_key_collisions: alone in its group the
\* bare str(); in a group of several the string key stays bare and the others
\* get the type suffix
resolved_name(items, it) ==
    LET group == SelectSeq(items, LAMBDA other : other.k.str = it.k.str)
    IN  IF Len(group) = 1 \/ it.k.type = "str"
        THEN it.k.str
        ELSE it.k.str \o type_suffix(it.k)

\* resolved[name] = value for the sorted items one after the other
RECURSIVE resolve_from(_, _, _)
resolve_from(items, i, resolved) ==
    IF i > Len(items) THEN resolved
    ELSE resolve_from(items, i + 1, dict_set(resolved, resolved_name(items, items[i]), items[i].v))

\* _resolve_key_collisions(data)
_resolve_key_collisions(d) == resolve_from(sorted_by_collision_key(d), 1, <<>>)

\* "_original" if counter == 1 else f"_original{counter}"
original_suffix(counter) ==
    IF counter = 1 THEN <<"_original">>
    ELSE IF counter = 2 THEN <<"_original", "2">>
    ELSE <<"_original", "3">>

\* the while loop of _resolve_extra_key_collision
RECURSIVE free_candidate(_, _, _)
free_candidate(kept_items, base_key, counter) ==
    IF (base_key \o original_suffix(counter)) \notin dict_keys(kept_items)
    THEN base_key \o original_suffix(counter)
    ELSE free_candidate(kept_items, base_key, counter + 1)

\* _resolve_extra_key_collision(kept_items, base_key)
_resolve_extra_key_collision(kept_items, base_key) ==
    IF base_key \notin dict_keys(kept_items) THEN base_key
    ELSE free_candidate(kept_items, base_key, 1)

\* step 2 of move_unknown_keys_to_extra, first part: a key equal to extra_key
\* is renamed; yields the keys and the set of renamed names
rename_extra_key(resolved_keys, extra_key) ==
    IF ~extra_key.none /\ extra_key.str \in dict_keys(resolved_keys)
    THEN LET conflicting_value == dict_value(resolved_keys, extra_key.str)
             popped == dict_pop(resolved_keys, extra_key.str)
             new_key == _resolve_extra_key_collision(popped, extra_key.str \o <<"_original">>)
         IN  [keys |-> dict_set(popped, new_key, conflicting_value), renamed |-> {new_key}]
    ELSE [keys |-> resolved_keys, renamed |-> {}]

\* step 2, second part: every key starting with f"{extra_key}_original" is
\* popped and stored again under a free name
RECURSIVE rename_cascade(_, _, _)
rename_cascade(state, keys_to_rename, i) ==
    IF i > Len(keys_to_rename) THEN state
    ELSE LET key == keys_to_rename[i]
             value == dict_value(state.keys, key)
             popped == dict_pop(state.keys, key)
             new_key == _resolve_extra_key_collision(popped, key)
         IN  rename_cascade([keys |-> dict_set(popped, new_key, value),
                             renamed |-> state.renamed \cup {new_key}],
                            keys_to_rename, i + 1)

\* the keys of resolved_keys that start with f"{extra_key}_original"; with
\* extra_key None the prefix is "None_original", which no key here starts with
original_variants(resolved_keys, extra_key) ==
    IF extra_key.none THEN <<>>
    ELSE LET hits == SelectSeq(resolved_keys,
                               LAMBDA it : startswith(it.k, extra_key.str \o <<"_original">>))
         IN  [i \in DOMAIN hits |-> hits[i].k]

\* sorted(d.keys()) as the dict in that order
RECURSIVE sorted_by_name(_)
sorted_by_name(d) ==
    IF d = <<>> THEN <<>>
    ELSE LET rest == sorted_by_name(SubSeq(d, 1, Len(d) - 1))
             last == d[Len(d)]
             not_after == SelectSeq(rest, LAMBDA it : ~str_lt(last.k, it.k))
             later == SelectSeq(rest, LAMBDA it : str_lt(last.k, it.k))
         IN  not_after \o <<last>> \o later

\* a top-level value of the result: a value of the input, or the extra dict
Plain(v) == [is_dict |-> FALSE, atom |-> v, items |-> <<>>]
ExtraDict(items) == [is_dict |-> TRUE, atom |-> "", items |-> items]

\* move_unknown_keys_to_extra(data, allowed_keys, extra_key=..., always_add_extra=...):
\* the pair (result, moved)
move_unknown_keys_to_extra(d, allowed_keys, extra_key, always_add_extra) ==
    LET allowed_str_keys == {k.str : k \in allowed_keys}
        resolved_keys == _resolve_key_collisions(d)
        first == rename_extra_key(resolved_keys, extra_key)
        renamed == rename_cascade(first, original_variants(first.keys, extra_key), 1)
        is_kept(it) == it.k \in allowed_str_keys \/ it.k \in renamed.renamed
        kept_items == SelectSeq(renamed.keys, is_kept)
        extra_items == SelectSeq(renamed.keys, LAMBDA it : ~is_kept(it))
        kept_plain == [i \in DOMAIN kept_items |-> Item(kept_items[i].k, Plain(kept_items[i].v))]
        with_extra ==
            IF (extra_items # <<>> \/ always_add_extra) /\ ~extra_key.none
            THEN dict_set(kept_plain, extra_key.str, ExtraDict(sorted_by_name(extra_items)))
            ELSE kept_plain
    IN  [result |-> sorted_by_name(with_extra),
         moved |-> [i \in DOMAIN sorted_by_name(extra_items) |-> sorted_by_name(extra_items)[i].k]]

\* the keys a dict may have: "1" and the int 1, the name the int gets when
\* suffixed, the extra key and its renamed forms, and an ordinary key
MoveKeys ==
    {StrKey(<<"1">>), IntKey(<<"1">>), StrKey(<<"1", "__int">>), StrKey(<<"a">>),
     StrKey(<<"e">>), StrKey(<<"e", "_original">>), StrKey(<<"e", "_original", "_original">>)}

\* the values, one per position of the dict
MoveValues == <<"v1", "v2", "v3", "v4">>

\* the dicts of up to MaxEntries items with different keys
MoveDicts ==
    UNION {{[i \in 1..n |-> Item(ks[i], MoveValues[i])] :
               ks \in {f \in [1..n -> MoveKeys] : \A i, j \in 1..n : i # j => f[i] # f[j]}} :
           n \in 0..MaxEntries}

\* allowed_keys: None is the empty whitelist
AllowedKeySets ==
    {{}, {StrKey(<<"1">>)}, {IntKey(<<"1">>), StrKey(<<"a">>)},
     {StrKey(<<"1", "__int">>), StrKey(<<"e">>)}}

\* extra_key: a name, or None
NoExtraKey == [none |-> TRUE, str |-> <<>>]
ExtraKeys == {[none |-> FALSE, str |-> <<"e">>], [none |-> FALSE, str |-> <<"1">>], NoExtraKey}

InitMove ==
    /\ data = NoneV
    /\ before = NoneV
    /\ call = "none"
    /\ args = NoArgs
    /\ opts = NoOpts
    /\ outcome = NoOutcome
    /\ pc = "ready"
    /\ prior = NoCall

\* move_unknown_keys_to_extra(data, allowed_keys, extra_key=..., always_add_extra=...)
CallMoveUnknownKeysToExtra ==
    /\ pc = "ready"
    /\ \E d \in MoveDicts, allowed_keys \in AllowedKeySets, extra_key \in ExtraKeys,
          always_add_extra \in BOOLEAN :
          /\ args' = [data |-> d, allowed_keys |-> allowed_keys, extra_key |-> extra_key,
                      always_add_extra |-> always_add_extra]
          /\ outcome' = [status |-> "returned",
                         value |-> move_unknown_keys_to_extra(d, allowed_keys, extra_key,
                                                              always_add_extra)]
    /\ call' = "move_unknown_keys_to_extra"
    /\ pc' = "returned"
    /\ UNCHANGED <<data, before, opts, prior>>

NextMove == CallMoveUnknownKeysToExtra

SpecMove == InitMove /\ [][NextMove]_vars

\* ------------------------------------------------------------ the claims
\* Definitions of this section state the claims in their own terms; they use
\* none of the helpers that model the code.

\* the emptiness rule: None, an empty string, an empty mapping / sequence / set
EmptyPerRule(v) ==
    \/ v.kind = "none"
    \/ v.kind = "str" /\ v.atom = ""
    \/ v.kind \in ContainerKinds /\ Len(v.items) = 0 /\ v.elems = {}

\* the direct children of a node
ChildrenOf(v) == {v.items[i] : i \in DOMAIN v.items} \cup v.elems

\* C1: prune_data is idempotent: a second call with the same arguments on the
\* value the first call returned returns a value equal to it.
C1_Idempotent ==
    (pc = "returned" /\ call = "prune_data" /\ prior.made /\ args = prior.args)
        => outcome.value = prior.outcome.value

\* C1 witness: a second call with the same arguments has returned, after a first
\* call that removed something from a nested input.
C1_Witness ==
    /\ pc = "returned" /\ prior.made /\ args = prior.args
    /\ ~short_circuit(args)
    /\ prior.outcome.value # prior.data
    /\ \E i \in DOMAIN prior.data.items : IsContainer(prior.data.items[i])

\* some node below v is empty
RECURSIVE HasEmptyBelow(_)
HasEmptyBelow(v) ==
    \E c \in ChildrenOf(v) : EmptyPerRule(c) \/ HasEmptyBelow(c)

\* some node below v is empty, looking only at the children of containers whose
\* depth (root = level) is at most limit, and never inside a set or frozenset
\* that is itself an element of a set
RECURSIVE HasEmptyWithin(_, _, _)
HasEmptyWithin(v, level, limit) ==
    /\ limit.none \/ level <= limit.n
    /\ \E c \in ChildrenOf(v) :
          \/ EmptyPerRule(c)
          \/ /\ ~(v.kind \in SetKinds /\ c.kind \in SetKinds)
             /\ HasEmptyWithin(c, level + 1, limit)

\* C2 (as claimed): with remove_empty=True no node of the output other than the
\* root is empty, whatever max_depth is and also inside frozensets nested in sets.
C2_NoEmptyNode ==
    (pc = "returned" /\ call = "prune_data" /\ args.remove_empty) => ~HasEmptyBelow(outcome.value)

\* C2 (amended): with remove_empty=True no node of the output other than the
\* root is empty, among the nodes at most max_depth + 1 levels below the root
\* (all levels when max_depth is None) that are not inside a set or frozenset
\* which is itself an element of a set.
C2_NoEmptyProcessedNode ==
    (pc = "returned" /\ call = "prune_data" /\ args.remove_empty)
        => ~HasEmptyWithin(outcome.value, 0, args.max_depth)

\* C2 witness: remove_empty=True dropped an empty node from inside a nested
\* container, and an empty node beyond the depth limit survived.
C2_Witness ==
    /\ pc = "returned" /\ call = "prune_data" /\ args.remove_empty /\ ~prior.made
    /\ ~args.max_depth.none
    /\ HasEmptyBelow(outcome.value)
    /\ outcome.value # data
    /\ \E c \in ChildrenOf(data) : \E g \in ChildrenOf(c) : EmptyPerRule(g)

\* out has, node for node, the container classes of the nodes of inp it was
\* produced from; with fallback, a "badmap" node may have become a dict
RECURSIVE SameTypes(_, _, _)
SameTypes(inp, out, fallback) ==
    /\ \/ out.kind = inp.kind
       \/ fallback /\ inp.kind = "badmap" /\ out.kind = "dict"
    /\ \A j \in DOMAIN out.items :
          IF IsMapping(inp)
          THEN \E i \in DOMAIN inp.items :
                  inp.keys[i] = out.keys[j] /\ SameTypes(inp.items[i], out.items[j], fallback)
          ELSE \E i \in DOMAIN inp.items : SameTypes(inp.items[i], out.items[j], fallback)
    /\ \A e \in out.elems : \E d \in inp.elems : SameTypes(d, e, fallback)

\* C3: every container node of the output has exactly the class of the input
\* node it was produced from, Mapping subclasses included (stated here with the
\* documented fallback granted: a Mapping whose constructor raises may come out
\* as a plain dict).
C3_TypePreserved ==
    (pc = "returned" /\ call = "prune_data") => SameTypes(data, outcome.value, TRUE)

\* only a key predicate is active
KeysOnly(a) == a.keys.form \in {"iterable", "callable"} /\ a.values.form = "none" /\ ~a.remove_empty

\* C4: depth monotonicity: pruning to max_depth=2 what pruning to max_depth=1
\* returned equals pruning the original to max_depth=2 (same key predicate, no
\* value predicate, remove_empty=False).
C4_DepthMonotonic ==
    (/\ pc = "returned" /\ prior.made
     /\ KeysOnly(args)
     /\ prior.args.max_depth = SomeInt(1) /\ args.max_depth = SomeInt(2))
        => outcome.value = prune_data(prior.data, args).value

\* C4 witness: the second call, to depth 2, removed a key that the first call,
\* to depth 1, had left in place.
C4_Witness ==
    /\ pc = "returned" /\ prior.made
    /\ KeysOnly(args)
    /\ prior.args.max_depth = SomeInt(1) /\ args.max_depth = SomeInt(2)
    /\ prior.outcome.value # prior.data
    /\ outcome.value # prior.outcome.value

\* out is inp with the keys in `matching` removed from exactly the mappings of
\* depth <= d (inp itself has depth `depth`), everything deeper being unchanged
RECURSIVE KeysRemovedTo(_, _, _, _, _)
KeysRemovedTo(inp, out, depth, d, matching) ==
    IF depth > d \/ inp.kind \notin (MappingKinds \cup SequenceKinds) THEN out = inp
    ELSE IF inp.kind \in SequenceKinds
         THEN /\ out.kind = inp.kind
              /\ Len(out.items) = Len(inp.items)
              /\ \A i \in DOMAIN inp.items :
                    KeysRemovedTo(inp.items[i], out.items[i], depth + 1, d, matching)
         ELSE /\ out.kind \in MappingKinds
              /\ out.keys = SelectSeq(inp.keys, LAMBDA k : k \notin matching)
              /\ \A i \in DOMAIN inp.items : \A j \in DOMAIN out.items :
                    inp.keys[i] = out.keys[j] =>
                        KeysRemovedTo(inp.items[i], out.items[j], depth + 1, d, matching)

\* C5: with max_depth = d >= 0 and only a key predicate active, the matching
\* keys are removed from exactly the mappings of container depth <= d and every
\* container of depth > d is unchanged.
C5_DepthSemantics ==
    (pc = "returned" /\ call = "prune_data" /\ KeysOnly(args) /\ ~args.max_depth.none)
        => KeysRemovedTo(before, outcome.value, 0, args.max_depth.n, {"secret"} \cap args.keys.items)

\* C5 witness: with max_depth=1 the call removed "secret" from the root mapping
\* and left a "secret" key two containers below the root in place.
C5_Witness ==
    /\ pc = "returned" /\ call = "prune_data" /\ KeysOnly(args) /\ ~prior.made
    /\ args.max_depth = SomeInt(1)
    /\ data.kind = "dict" /\ data.keys = <<"secret", "keep">>
    /\ outcome.value.keys = <<"keep">>
    /\ \E c \in ChildrenOf(outcome.value) : \E g \in ChildrenOf(c) :
          g.kind = "dict" /\ \E i \in DOMAIN g.keys : g.keys[i] = "secret"

C6_WitnessWalk ==
    /\ pc = "returned" /\ call = "walk"
    /\ IsSequence(before) /\ Len(outcome.value.items) < Len(before.items)

\* the argument is None or an empty iterable
NoFilter(arg) == arg.form = "none" \/ (arg.form = "iterable" /\ arg.items = {})

\* the argument is neither None, callable nor iterable
BadArg(arg) == arg.form \notin {"none", "callable", "iterable"}

\* C7: fast path: with keys_to_remove and values_to_remove each None or an
\* empty iterable, remove_empty False and max_depth None or >= 0, prune_data
\* returns the very object it was given.
C7_FastPathIdentity ==
    (/\ call = "prune_data" /\ pc \in {"returned", "raised"}
     /\ NoFilter(args.keys) /\ NoFilter(args.values) /\ ~args.remove_empty
     /\ (args.max_depth.none \/ args.max_depth.n >= 0))
        => pc = "returned" /\ outcome.same /\ outcome.value = before

\* C7 witness: the fast path answered a call with empty lists as filters, a
\* depth limit of 0 and a nested container as input.
C7_Witness ==
    /\ call = "prune_data" /\ pc = "returned"
    /\ args.keys = Arg("iterable", {}) /\ args.values = Arg("iterable", {})
    /\ ~args.remove_empty /\ args.max_depth = SomeInt(0)
    /\ outcome.same
    /\ \E c \in ChildrenOf(before) : IsContainer(c)

\* v holds no set or frozenset
RECURSIVE SetFree(_)
SetFree(v) ==
    v.kind \notin SetKinds /\ \A i \in DOMAIN v.items : SetFree(v.items[i])

\* the primitives of a set-free value, in the order a traversal meets them
RECURSIVE Leaves(_, _)
Leaves(v, i) ==
    IF ~IsContainer(v) THEN <<v>>
    ELSE IF i > Len(v.items) THEN <<>>
    ELSE Leaves(v.items[i], 1) \o Leaves(v, i + 1)

\* the primitives that occur anywhere in a value
RECURSIVE Atoms(_)
Atoms(v) ==
    IF ~IsContainer(v) THEN {v} ELSE UNION {Atoms(c) : c \in ChildrenOf(v)}

NotEmptyPerRule(v) == ~EmptyPerRule(v)

EmptyOfKind(v) ==
    CASE v.kind \in {"dict", "ordereddict", "userdict"} -> Node(v.kind, "", <<>>, <<>>, {})
      [] v.kind = "badmap" -> Node("dict", "", <<>>, <<>>, {})
      [] v.kind \in SequenceKinds \cup SetKinds -> Node(v.kind, "", <<>>, <<>>, {})
      [] v.kind = "str" -> Node("str", "", <<>>, <<>>, {})
      [] OTHER -> v

\* C9: with remove_empty=True, a result that is empty is the empty container of
\* the kind of the original root.
C9_EmptyRootKind ==
    (call = "prune_data" /\ pc = "returned" /\ args.remove_empty
     /\ EmptyPerRule(outcome.value))
        => outcome.value = EmptyOfKind(before)

\* C9 witness: an OrderedDict root with content was pruned to nothing and came
\* back as an empty OrderedDict.
C9_Witness ==
    /\ call = "prune_data" /\ pc = "returned" /\ args.remove_empty
    /\ before.kind = "ordereddict" /\ Len(before.items) = 2
    /\ outcome.value = Node("ordereddict", "", <<>>, <<>>, {})

\* C10: a negative max_depth, or a keys_to_remove / values_to_remove that is
\* neither None, callable nor iterable, makes prune_data raise before any
\* traversal and return nothing, whatever the data and the other arguments.
C10_ArgumentsValidated ==
    (/\ call = "prune_data" /\ pc \in {"returned", "raised"}
     /\ \/ ~args.max_depth.none /\ args.max_depth.n < 0
        \/ BadArg(args.keys)
        \/ BadArg(args.values))
        => /\ pc = "raised"
           /\ outcome.status \in {"ValueError", "TypeError"}
           /\ ~outcome.traversed
           /\ outcome.value = NoneV

\* C10 witness: a call that the fast path would have answered (no key filter,
\* remove_empty False) raised TypeError for its values_to_remove.
C10_Witness ==
    /\ call = "prune_data" /\ pc = "raised"
    /\ args.keys = Arg("none", {}) /\ BadArg(args.values) /\ ~args.remove_empty
    /\ args.max_depth.none
    /\ outcome.status = "TypeError"
    /\ IsContainer(before)

\* what Python can hash: primitives, frozensets, and tuples of such values
RECURSIVE Hashable(_)
Hashable(v) ==
    \/ v.kind \in {"none", "str", "int", "bool", "frozenset"}
    \/ v.kind = "tuple" /\ \A i \in DOMAIN v.items : Hashable(v.items[i])

\* every set and frozenset at or below v holds hashable elements only
RECURSIVE SetsHoldHashables(_)
SetsHoldHashables(v) ==
    /\ v.kind \in {"set", "frozenset"} => \A e \in v.elems : Hashable(e)
    /\ \A c \in ChildrenOf(v) : SetsHoldHashables(c)

\* the arguments pass prune_data's validation
ValidArgs(a) ==
    /\ a.max_depth.none \/ a.max_depth.n >= 0
    /\ ~BadArg(a.keys) /\ ~BadArg(a.values)

\* the elements of a set-like root that are themselves sets or frozensets
\* come out as they went in (unless dropped as empty, equal to a value to
\* remove, or unhashable)
SetLikeElementsUntouched ==
    (before.kind \in {"set", "frozenset", "fakeset"} /\ outcome.traversed)
        => \A e \in ChildrenOf(outcome.value) :
               e.kind = "frozenset" => e \in ChildrenOf(before)

\* C11: with valid arguments prune_data raises no error whatever the data, every
\* element of every set and frozenset of its output is hashable, and the
\* set-like elements of a set are not recursed into.
C11_HashableAndNoError ==
    (call = "prune_data" /\ pc \in {"returned", "raised"} /\ ValidArgs(args))
        => /\ pc = "returned"
           /\ SetsHoldHashables(outcome.value)
           /\ SetLikeElementsUntouched

\* C11, the part that holds: whenever prune_data returns, the sets and
\* frozensets of its output hold hashable elements only, and the set-like
\* elements of a set-like root were not recursed into.
C11_ReturnedSetsHashable ==
    (call = "prune_data" /\ pc = "returned")
        => SetsHoldHashables(outcome.value) /\ SetLikeElementsUntouched

\* C11: a fakeset with an unhashable item was processed and came out as a set
\* without that item.
C11_DroppedUnhashable ==
    /\ call = "prune_data" /\ pc = "returned" /\ outcome.traversed /\ ~prior.made
    /\ before.kind = "fakeset"
    /\ \E c \in ChildrenOf(before) : ~Hashable(c)
    /\ outcome.value.kind = "set" /\ outcome.value.elems # {}

\* walk returned, no depth limit was set, and the item limit is None or a count
WalkedWithItemLimit ==
    /\ call = "walk" /\ pc = "returned"
    /\ opts.max_depth.none
    /\ opts.max_items_per_container.none \/ opts.max_items_per_container.n >= 0

\* how many of n elements a limit of N leaves
LimitedTo(n, N) == IF N.none \/ N.n >= n THEN n ELSE N.n

\* out is inp with every list / tuple cut to its first N elements, every set /
\* frozenset cut to at most N elements, and every mapping holding all its keys
RECURSIVE ItemLimited(_, _, _)
ItemLimited(inp, out, N) ==
    CASE inp.kind \in MappingKinds ->
             /\ out.kind = "dict"
             /\ \A i \in DOMAIN inp.keys : \E j \in DOMAIN out.keys :
                    out.keys[j] = inp.keys[i] /\ ItemLimited(inp.items[i], out.items[j], N)
      [] inp.kind \in SequenceKinds ->
             /\ out.kind = inp.kind
             /\ Len(out.items) = LimitedTo(Len(inp.items), N)
             /\ \A i \in DOMAIN out.items : ItemLimited(inp.items[i], out.items[i], N)
      [] inp.kind \in SetKinds ->
             /\ out.kind = inp.kind
             /\ Cardinality(out.elems) <= LimitedTo(Cardinality(inp.elems), N)
             /\ \A e \in out.elems : \E f \in inp.elems : ItemLimited(f, e, N)
      [] OTHER -> out = inp

\* C12: for every item limit N, every mapping of walk's result has all the keys
\* of the input mapping, every list / tuple is the first N elements of the input
\* sequence in order, and every set / frozenset has at most N elements.
C12_MappingsNeverLimited ==
    WalkedWithItemLimit => ItemLimited(before, outcome.value, opts.max_items_per_container)

\* the label of a key: the int key 1 and the str key "1" share the label "1"
LabelOf(k) == IF k = IntKey1 THEN "1" ELSE k

\* as ItemLimited, with a mapping holding the labels of all its keys, each
\* label once, its value coming from an input item of that label
RECURSIVE ItemLimitedUpToLabels(_, _, _)
ItemLimitedUpToLabels(inp, out, N) ==
    CASE inp.kind \in MappingKinds ->
             /\ out.kind = "dict"
             /\ {out.keys[j] : j \in DOMAIN out.keys} = {LabelOf(inp.keys[i]) : i \in DOMAIN inp.keys}
             /\ \A i, j \in DOMAIN out.keys : out.keys[i] = out.keys[j] => i = j
             /\ \A j \in DOMAIN out.keys : \E i \in DOMAIN inp.keys :
                    /\ LabelOf(inp.keys[i]) = out.keys[j]
                    /\ ItemLimitedUpToLabels(inp.items[i], out.items[j], N)
      [] inp.kind \in SequenceKinds ->
             /\ out.kind = inp.kind
             /\ Len(out.items) = LimitedTo(Len(inp.items), N)
             /\ \A i \in DOMAIN out.items : ItemLimitedUpToLabels(inp.items[i], out.items[i], N)
      [] inp.kind \in SetKinds ->
             /\ out.kind = inp.kind
             /\ Cardinality(out.elems) <= LimitedTo(Cardinality(inp.elems), N)
             /\ \A e \in out.elems : \E f \in inp.elems : ItemLimitedUpToLabels(f, e, N)
      [] OTHER -> out = inp

\* C12, the part that holds: the item limit cuts lists, tuples and sets and
\* never a mapping, whose result holds one entry for each label str(k).
C12_LimitedUpToLabels ==
    WalkedWithItemLimit
        => ItemLimitedUpToLabels(before, outcome.value, opts.max_items_per_container)

\* C12: walk with an item limit of 1 cut a nested list and kept both keys of
\* the dict around it.
C12_CutListKeptKeys ==
    /\ WalkedWithItemLimit /\ opts.max_items_per_container = SomeInt(1)
    /\ before.kind = "dict" /\ Len(before.keys) = 1
    /\ \E c \in ChildrenOf(before) : c.kind = "list" /\ Len(c.items) = 2
    /\ \E c \in ChildrenOf(outcome.value) : c.kind = "list" /\ Len(c.items) = 1

\* a == b as Python compares the values walk handles: dicts by their items
\* whatever the order, lists and tuples elementwise, sets by their elements
RECURSIVE EqualValues(_, _)
EqualValues(a, b) ==
    CASE a.kind \in MappingKinds /\ b.kind \in MappingKinds ->
             /\ Len(a.keys) = Len(b.keys)
             /\ \A i \in DOMAIN a.keys : \E j \in DOMAIN b.keys :
                    a.keys[i] = b.keys[j] /\ EqualValues(a.items[i], b.items[j])
      [] a.kind \in SequenceKinds /\ b.kind \in SequenceKinds ->
             /\ a.kind = b.kind /\ Len(a.items) = Len(b.items)
             /\ \A i \in DOMAIN a.items : EqualValues(a.items[i], b.items[i])
      [] a.kind \in SetKinds /\ b.kind \in SetKinds ->
             /\ \A e \in a.elems : \E f \in b.elems : EqualValues(e, f)
             /\ \A f \in b.elems : \E e \in a.elems : EqualValues(e, f)
      [] OTHER -> a = b

\* walk returned with neither a depth limit nor an item limit
WalkedUnlimited ==
    /\ call = "walk" /\ pc = "returned"
    /\ opts.max_depth.none /\ opts.max_items_per_container.none

\* C13: with max_depth and max_items_per_container unset, walk returns a value
\* equal to its input, mappings with non-string keys included.
C13_UnlimitedCopyEqual ==
    WalkedUnlimited => EqualValues(outcome.value, before)

\* some mapping at or below v has a key that is not a string
RECURSIVE HasNonStringKey(_)
HasNonStringKey(v) ==
    \/ \E i \in DOMAIN v.keys : v.keys[i] = IntKey1
    \/ \E c \in ChildrenOf(v) : HasNonStringKey(c)

\* C13, the part that holds: the unlimited copy equals the input when every
\* mapping key of the input is a string.
C13_EqualForStringKeys ==
    (WalkedUnlimited /\ ~HasNonStringKey(before)) => EqualValues(outcome.value, before)

\* C13: walk returned an unlimited copy of a dict of two string keys inserted
\* out of order, its keys now sorted.
C13_CopiedNestedDict ==
    /\ WalkedUnlimited /\ opts.sort_keys
    /\ before.kind = "dict" /\ before.keys = <<"keep", "1">>
    /\ outcome.value.keys = <<"1", "keep">>

\* the empty container of the kind of v: {} for a mapping, [] / () for a list /
\* tuple, set() / frozenset() for a set / frozenset
EmptyOfSameKind(v) ==
    CASE v.kind \in MappingKinds -> Node("dict", "", <<>>, <<>>, {})
      [] OTHER -> Node(v.kind, "", <<>>, <<>>, {})

\* out is inp cut at depth d: a primitive is unchanged, a container at depth >= d
\* is the empty container of its kind, and a container at depth < d is expanded:
\* it has the kind of inp and holds the cut versions of inp's children (as many
\* as the item limit N leaves of a list, tuple or set)
RECURSIVE DepthLimited(_, _, _, _, _)
DepthLimited(inp, out, depth, d, N) ==
    CASE inp.kind \notin (MappingKinds \cup SequenceKinds \cup SetKinds) -> out = inp
      [] inp.kind \in (MappingKinds \cup SequenceKinds \cup SetKinds) /\ depth >= d ->
             out = EmptyOfSameKind(inp)
      [] inp.kind \in MappingKinds /\ depth < d ->
             /\ out.kind = "dict"
             /\ Len(out.keys) <= Len(inp.keys)
             /\ Len(inp.keys) > 0 => Len(out.keys) > 0
             /\ \A j \in DOMAIN out.keys : \E i \in DOMAIN inp.keys :
                    DepthLimited(inp.items[i], out.items[j], depth + 1, d, N)
      [] inp.kind \in SequenceKinds /\ depth < d ->
             /\ out.kind = inp.kind
             /\ Len(out.items) = LimitedTo(Len(inp.items), N)
             /\ \A i \in DOMAIN out.items :
                    DepthLimited(inp.items[i], out.items[i], depth + 1, d, N)
      [] inp.kind \in SetKinds /\ depth < d ->
             /\ out.kind = inp.kind
             /\ Cardinality(out.elems) <= LimitedTo(Cardinality(inp.elems), N)
             /\ (inp.elems # {} /\ LimitedTo(Cardinality(inp.elems), N) > 0) => out.elems # {}
             /\ \A e \in out.elems : \E f \in inp.elems :
                    DepthLimited(f, e, depth + 1, d, N)

\* C14: with max_depth = d, every container at depth >= d of walk's result is
\* the empty container of the kind of the input node, every container at depth
\* < d is expanded, and primitives pass through unchanged.
C14_CollapsedAtDepth ==
    (/\ call = "walk" /\ pc = "returned" /\ ~opts.max_depth.none
     /\ opts.max_items_per_container.none \/ opts.max_items_per_container.n >= 0)
        => DepthLimited(before, outcome.value, 0, opts.max_depth.n,
                        opts.max_items_per_container)

\* C14 witness: with max_depth = 1 and no item limit the root dict was expanded
\* and the non-empty tuple below it came out as ().
C14_Witness ==
    /\ call = "walk" /\ pc = "returned"
    /\ opts.max_depth = SomeInt(1) /\ opts.max_items_per_container.none
    /\ before.kind = "dict" /\ Len(before.keys) = 1
    /\ before.items[1].kind = "tuple" /\ Len(before.items[1].items) > 0
    /\ Len(outcome.value.keys) = 1
    /\ outcome.value.items[1] = Node("tuple", "", <<>>, <<>>, {})

\* the length of month m of year y
MonthLength(y, m) ==
    IF m = 2 THEN (IF y % 4 = 0 /\ (y % 100 # 0 \/ y % 400 = 0) THEN 29 ELSE 28)
    ELSE IF m \in {4, 6, 9, 11} THEN 30 ELSE 31

\* the date an ISO string names, and the order of two ISO strings as dates
IsoDate(iso) == DateOf(iso.yyyy, iso.mm, iso.dd)
IsoOrdered(a, b) == toordinal(IsoDate(a)) <= toordinal(IsoDate(b))

\* get_relative_date_frame returned a frame for date_part
FrameReturned(date_part) ==
    call = "get_relative_date_frame" /\ pc = "returned" /\ args.date_part = date_part

\* C15: get_relative_date_frame returns the first and last day of the period
\* holding the anchor shifted by n periods: DAY that day, WEEK Monday to Sunday
\* (7 days), MONTH the 1st to the last day of the month, YEAR Jan 1 to Dec 31;
\* start <= end always.
C15_FrameIsThePeriod ==
    LET start == outcome.value[1]
        end == outcome.value[2]
        anchor == args.date_from
    IN  /\ FrameReturned("DAY") =>
              /\ start = end
              /\ toordinal(IsoDate(start)) = toordinal(anchor) + args.n
        /\ FrameReturned("WEEK") =>
              /\ weekday(IsoDate(start)) = 0
              /\ toordinal(IsoDate(end)) = toordinal(IsoDate(start)) + 6
              /\ toordinal(IsoDate(start)) <= toordinal(anchor) + 7 * args.n
              /\ toordinal(anchor) + 7 * args.n <= toordinal(IsoDate(end))
        /\ FrameReturned("MONTH") =>
              /\ start.dd = 1 /\ start.yyyy = end.yyyy /\ start.mm = end.mm
              /\ end.dd = MonthLength(end.yyyy, end.mm)
              /\ start.yyyy * 12 + start.mm = anchor.y * 12 + anchor.m + args.n
        /\ FrameReturned("YEAR") =>
              /\ start = IsoOf(anchor.y + args.n, 1, 1)
              /\ end = IsoOf(anchor.y + args.n, 12, 31)
        /\ (call = "get_relative_date_frame" /\ pc = "returned") => IsoOrdered(start, end)

\* C15 witness: one month before 2024-03-31, a day February does not have, the
\* frame is the whole of February 2024.
C15_Witness ==
    /\ FrameReturned("MONTH")
    /\ args.date_from = DateOf(2024, 3, 31) /\ args.n = -1
    /\ outcome.value = <<IsoOf(2024, 2, 1), IsoOf(2024, 2, 29)>>

\* C16: get_relative_date_frame("QUARTER", n) returns the calendar quarter n
\* quarters after the quarter holding the anchor: it starts on the 1st of Jan,
\* Apr, Jul or Oct and ends on the last day of the third month.
C16_QuarterFrame ==
    FrameReturned("QUARTER") =>
        LET start == outcome.value[1]
            end == outcome.value[2]
            anchor == args.date_from
        IN  /\ start.dd = 1 /\ start.mm \in {1, 4, 7, 10}
            /\ end.yyyy = start.yyyy /\ end.mm = start.mm + 2
            /\ end.dd = MonthLength(end.yyyy, end.mm)
            /\ start.yyyy * 4 + ((start.mm - 1) \div 3)
                   = anchor.y * 4 + ((anchor.m - 1) \div 3) + args.n

\* C16 witness: from the anchor 2024-03-31, the last day of a quarter and a day
\* 31, three quarters back is the second quarter of 2023.
C16_Witness ==
    /\ FrameReturned("QUARTER")
    /\ args.date_from = DateOf(2024, 3, 31) /\ args.n = -3
    /\ outcome.value = <<IsoOf(2023, 4, 1), IsoOf(2023, 6, 30)>>

\* the DateRange objects the last call produced
ProducedRanges ==
    IF pc # "returned" THEN {}
    ELSE IF call \in {"around_date", "single_calendar_period"} THEN {outcome.value}
    ELSE IF call \in {"split", "calendar_periods", "offset_range_buckets", "split_lookback_period"}
         THEN {outcome.value[i] : i \in DOMAIN outcome.value}
    ELSE {}

\* C17: every DateRange produced by around_date, split, single_calendar_period,
\* calendar_periods, offset_range_buckets or split_lookback_period has
\* date_start <= date_end, for all arguments accepted without raising.
C17_ProducedRangesOrdered ==
    \A r \in ProducedRanges : IsoOrdered(r.date_start, r.date_end)

\* C17, as far as it holds: the ranges are ordered unless they come from
\* offset_range_buckets for an offset after the period of date_end.
C17_OrderedUnlessFutureBucket ==
    (call # "offset_range_buckets" \/ args.offset_start <= 0) =>
        \A r \in ProducedRanges : IsoOrdered(r.date_start, r.date_end)

\* C17: offset_range_buckets returned a range for a period after date_end,
\* whose end was cut to date_end, before its start.
C17_FutureBucketReversed ==
    /\ call = "offset_range_buckets" /\ pc = "returned"
    /\ args.date_part = "MONTH" /\ args.offset_start = 1 /\ args.offset_end = 1
    /\ args.date_end = DateOf(2024, 6, 15)
    /\ outcome.value = <<[date_start |-> IsoOf(2024, 7, 1), date_end |-> IsoOf(2024, 6, 15)]>>

\* the number of the calendar period of kind date_part that holds the date
PeriodIndex(date_part, dt) ==
    CASE date_part = "DAY" -> toordinal(dt)
      [] date_part = "WEEK" -> (toordinal(dt) - 1) \div 7
      [] date_part = "MONTH" -> dt.y * 12 + (dt.m - 1)
      [] date_part = "QUARTER" -> dt.y * 4 + ((dt.m - 1) \div 3)
      [] date_part = "YEAR" -> dt.y

\* dt is the first day of a calendar period of kind date_part
IsPeriodStart(date_part, dt) ==
    CASE date_part = "DAY" -> TRUE
      [] date_part = "WEEK" -> toordinal(dt) % 7 = 1
      [] date_part = "MONTH" -> dt.d = 1
      [] date_part = "QUARTER" -> dt.d = 1 /\ dt.m \in {1, 4, 7, 10}
      [] date_part = "YEAR" -> dt.d = 1 /\ dt.m = 1

\* the last day of the calendar period that starts on dt
FullPeriodEnd(date_part, dt) ==
    CASE date_part = "DAY" -> dt
      [] date_part = "WEEK" -> fromordinal(toordinal(dt) + 6)
      [] date_part = "MONTH" -> DateOf(dt.y, dt.m, MonthLength(dt.y, dt.m))
      [] date_part = "QUARTER" -> DateOf(dt.y, dt.m + 2, MonthLength(dt.y, dt.m + 2))
      [] date_part = "YEAR" -> DateOf(dt.y, 12, 31)

\* r is the calendar period at the given offset from the period holding
\* anchor; its end is the period's last day, or the anchor when clipped is set
\* and the period's last day is after the anchor
IsPeriodAt(r, date_part, offset, anchor, clipped) ==
    LET start == IsoDate(r.date_start)
        full == FullPeriodEnd(date_part, start)
    IN  /\ IsPeriodStart(date_part, start)
        /\ PeriodIndex(date_part, start) = PeriodIndex(date_part, anchor) + offset
        /\ IsoDate(r.date_end) =
               IF clipped /\ toordinal(full) > toordinal(anchor) THEN anchor ELSE full

\* C18: calendar_periods returns exactly count ranges (none for a count below
\* 1), most recent first; ranges[i] is the calendar period i periods before
\* the one holding date_end, consecutive without gaps or overlaps; with
\* trim_last_period only ranges[0] can be clipped, to min(period end,
\* date_end); without it every range is a full period.
C18_CalendarPeriods ==
    (call = "calendar_periods" /\ pc = "returned") =>
        LET ranges == outcome.value
        IN  /\ Len(ranges) = IF args.count < 0 THEN 0 ELSE args.count
            /\ \A i \in DOMAIN ranges :
                  /\ IsPeriodAt(ranges[i], args.date_part, 0 - (i - 1), args.date_end,
                                args.trim_last_period /\ i = 1)
                  /\ i > 1 => toordinal(IsoDate(ranges[i].date_end)) + 1
                                  = toordinal(IsoDate(ranges[i - 1].date_start))

\* C18 witness: three months ending 2024-03-01 with trimming are March cut to
\* its first day, then the whole of February and of January.
C18_Witness ==
    /\ call = "calendar_periods" /\ pc = "returned"
    /\ args.date_part = "MONTH" /\ args.count = 3 /\ args.trim_last_period
    /\ args.date_end = DateOf(2024, 3, 1)
    /\ outcome.value = <<[date_start |-> IsoOf(2024, 3, 1), date_end |-> IsoOf(2024, 3, 1)],
                         [date_start |-> IsoOf(2024, 2, 1), date_end |-> IsoOf(2024, 2, 29)],
                         [date_start |-> IsoOf(2024, 1, 1), date_end |-> IsoOf(2024, 1, 31)]>>

\* C19: offset_range_buckets returns max(0, offset_start - offset_end + 1)
\* ranges, one per offset from offset_start down to offset_end, each the
\* calendar period at that offset from date_end with its end clipped to
\* date_end whenever the period end is after date_end.
C19_OffsetRangeBuckets ==
    (call = "offset_range_buckets" /\ pc = "returned") =>
        LET ranges == outcome.value
            wanted == args.offset_start - args.offset_end + 1
        IN  /\ Len(ranges) = IF wanted < 0 THEN 0 ELSE wanted
            /\ \A k \in DOMAIN ranges :
                  IsPeriodAt(ranges[k], args.date_part, args.offset_start - (k - 1),
                             args.date_end, TRUE)

\* C19 witness: the weeks at offsets 0, -1, -2 from Wednesday 2024-01-03; the
\* current week is cut to the Wednesday.
C19_Witness ==
    /\ call = "offset_range_buckets" /\ pc = "returned"
    /\ args.date_part = "WEEK" /\ args.offset_start = 0 /\ args.offset_end = -2
    /\ args.date_end = DateOf(2024, 1, 3)
    /\ outcome.value = <<[date_start |-> IsoOf(2024, 1, 1), date_end |-> IsoOf(2024, 1, 3)],
                         [date_start |-> IsoOf(2023, 12, 25), date_end |-> IsoOf(2023, 12, 31)],
                         [date_start |-> IsoOf(2023, 12, 18), date_end |-> IsoOf(2023, 12, 24)]>>

\* the days from an ISO start to an ISO end, both included
DaysSpanned(start, end) == toordinal(IsoDate(end)) - toordinal(IsoDate(start)) + 1

\* C20: for chunk_days >= 1 and date_start <= date_end, split returns chunks
\* that partition the range: the first starts at date_start, each next one
\* starts the day after the previous ends, the last ends at date_end, every
\* chunk but possibly the last spans chunk_days days, and there are
\* ceil(days_count / chunk_days) chunks.
C20_SplitPartitions ==
    (call = "split" /\ pc = "returned" /\ args.chunk_days >= 1
        /\ IsoOrdered(args.self.date_start, args.self.date_end)) =>
        LET chunks == outcome.value
            total == DaysSpanned(args.self.date_start, args.self.date_end)
        IN  /\ Len(chunks) = (total + args.chunk_days - 1) \div args.chunk_days
            /\ Len(chunks) >= 1
            /\ chunks[1].date_start = args.self.date_start
            /\ chunks[Len(chunks)].date_end = args.self.date_end
            /\ \A i \in DOMAIN chunks :
                  /\ i > 1 => DaysSpanned(chunks[i - 1].date_end, chunks[i].date_start) = 2
                  /\ i < Len(chunks) =>
                        DaysSpanned(chunks[i].date_start, chunks[i].date_end) = args.chunk_days
                  /\ DaysSpanned(chunks[i].date_start, chunks[i].date_end) \in 1..args.chunk_days

\* C20 witness: the nine days from 2023-12-25 to 2024-01-02 in chunks of four
\* are two full chunks and a last chunk of one day.
C20_Witness ==
    /\ call = "split" /\ pc = "returned" /\ args.chunk_days = 4
    /\ args.self = [date_start |-> IsoOf(2023, 12, 25), date_end |-> IsoOf(2024, 1, 2)]
    /\ outcome.value = <<[date_start |-> IsoOf(2023, 12, 25), date_end |-> IsoOf(2023, 12, 28)],
                         [date_start |-> IsoOf(2023, 12, 29), date_end |-> IsoOf(2024, 1, 1)],
                         [date_start |-> IsoOf(2024, 1, 2), date_end |-> IsoOf(2024, 1, 2)]>>

\* the days of a sequence of ranges, added up
RECURSIVE SumOfDays(_)
SumOfDays(ranges) ==
    IF ranges = <<>> THEN 0
    ELSE DaysSpanned(ranges[1].date_start, ranges[1].date_end) + SumOfDays(Tail(ranges))

\* C21: split_lookback_period with chunk_days >= 1 returns chunks, most recent
\* first, that partition the total_days days ending at date_end: the first ends
\* at date_end, each next one ends the day before the previous starts, every
\* chunk spans at most chunk_days days and only the oldest may be shorter, and
\* the day counts sum to total_days (no chunk when there is no day to cover);
\* with chunk_days < 1 it raises and returns nothing.
C21_LookbackPartitions ==
    call = "split_lookback_period" =>
        LET chunks == outcome.value
        IN  /\ args.chunk_days < 1 => pc = "raised" /\ outcome.status = "ValueError" /\ chunks = <<>>
            /\ args.chunk_days >= 1 =>
                  /\ pc = "returned"
                  /\ args.total_days < 1 => chunks = <<>>
                  /\ args.total_days >= 1 =>
                        /\ Len(chunks) >= 1
                        /\ IsoDate(chunks[1].date_end) = args.date_end
                        /\ SumOfDays(chunks) = args.total_days
                        /\ \A i \in DOMAIN chunks :
                              /\ i > 1 => DaysSpanned(chunks[i].date_end, chunks[i - 1].date_start) = 2
                              /\ i < Len(chunks) =>
                                    DaysSpanned(chunks[i].date_start, chunks[i].date_end) = args.chunk_days
                              /\ DaysSpanned(chunks[i].date_start, chunks[i].date_end) \in 1..args.chunk_days

\* C21 witness: nine days ending 2024-01-02 in chunks of four are two full
\* chunks, most recent first, and an oldest chunk of one day.
C21_Witness ==
    /\ call = "split_lookback_period" /\ pc = "returned"
    /\ args.total_days = 9 /\ args.chunk_days = 4 /\ args.date_end = DateOf(2024, 1, 2)
    /\ outcome.value = <<[date_start |-> IsoOf(2023, 12, 30), date_end |-> IsoOf(2024, 1, 2)],
                         [date_start |-> IsoOf(2023, 12, 26), date_end |-> IsoOf(2023, 12, 29)],
                         [date_start |-> IsoOf(2023, 12, 25), date_end |-> IsoOf(2023, 12, 25)]>>

\* C22: around_date with lookback lb and lookforward lf (None is 0) returns
\* [anchor - lb days, anchor + lf days] whenever lb >= 0 and lf >= 0, and
\* raises without returning a range whenever lb < 0 or lf < 0.
C22_AroundDate ==
    call = "around_date" =>
        LET lb == IF args.days_lookback.none THEN 0 ELSE args.days_lookback.n
            lf == IF args.days_lookforward.none THEN 0 ELSE args.days_lookforward.n
        IN  /\ (lb >= 0 /\ lf >= 0) =>
                  /\ pc = "returned"
                  /\ toordinal(IsoDate(outcome.value.date_start)) = toordinal(args.date_anchor) - lb
                  /\ toordinal(IsoDate(outcome.value.date_end)) = toordinal(args.date_anchor) + lf
            /\ (lb < 0 \/ lf < 0) =>
                  pc = "raised" /\ outcome.status = "ValueError" /\ outcome.value = <<>>

\* C22 witness: two days back and one day forward from 2024-01-01 gives
\* 2023-12-30 to 2024-01-02.
C22_Witness ==
    /\ call = "around_date" /\ pc = "returned"
    /\ args.date_anchor = DateOf(2024, 1, 1)
    /\ args.days_lookback = SomeInt(2) /\ args.days_lookforward = SomeInt(1)
    /\ outcome.value = [date_start |-> IsoOf(2023, 12, 30), date_end |-> IsoOf(2024, 1, 2)]

\* C22 witness of the error case: a negative lookback with a valid
\* lookforward raises.
C22_Raised ==
    /\ call = "around_date" /\ pc = "raised"
    /\ args.days_lookback = SomeInt(-1) /\ args.days_lookforward = SomeInt(1)

\* C23: for every ordered range, extend_to_week_bounds returns the smallest
\* Monday-to-Sunday aligned range containing it, and extend_to_month_bounds
\* the range from the 1st of the start's month to the last day of the end's
\* month (December and February included); both are idempotent.
C23_ExtendToBounds ==
    LET self == args.self
        got == outcome.value
        start == IsoDate(self.date_start)
        end == IsoDate(self.date_end)
    IN  /\ (call = "extend_to_week_bounds" /\ IsoOrdered(self.date_start, self.date_end)) =>
              /\ pc = "returned"
              /\ toordinal(IsoDate(got.date_start)) % 7 = 1
              /\ toordinal(IsoDate(got.date_end)) % 7 = 0
              /\ toordinal(start) - toordinal(IsoDate(got.date_start)) \in 0..6
              /\ toordinal(IsoDate(got.date_end)) - toordinal(end) \in 0..6
              /\ extend_to_week_bounds(got) = got
        /\ (call = "extend_to_month_bounds" /\ IsoOrdered(self.date_start, self.date_end)) =>
              /\ pc = "returned"
              /\ got.date_start = IsoOf(start.y, start.m, 1)
              /\ got.date_end = IsoOf(end.y, end.m, MonthLength(end.y, end.m))
              /\ extend_to_month_bounds(got) = got

\* C23 witness: a range ending in December is extended to December 31st of
\* the same year.
C23_Witness ==
    /\ call = "extend_to_month_bounds" /\ pc = "returned"
    /\ args.self = [date_start |-> IsoOf(2023, 12, 25), date_end |-> IsoOf(2023, 12, 29)]
    /\ outcome.value = [date_start |-> IsoOf(2023, 12, 1), date_end |-> IsoOf(2023, 12, 31)]

\* C23 witness for weeks: Wednesday 2024-02-28 to Friday 2024-03-01 is
\* extended to Monday 2024-02-26 through Sunday 2024-03-03.
C23_WeekWitness ==
    /\ call = "extend_to_week_bounds" /\ pc = "returned"
    /\ args.self = [date_start |-> IsoOf(2024, 2, 28), date_end |-> IsoOf(2024, 3, 1)]
    /\ outcome.value = [date_start |-> IsoOf(2024, 2, 26), date_end |-> IsoOf(2024, 3, 3)]

\* the values found in the result of move_unknown_keys_to_extra: at the top
\* level, or inside the extra dict
ResultValues(result) ==
    {result[i].v.atom : i \in {j \in DOMAIN result : ~result[j].v.is_dict}}
    \cup UNION {{result[i].v.items[j].v : j \in DOMAIN result[i].v.items} :
                   i \in {j \in DOMAIN result : result[j].v.is_dict}}

\* C24: move_unknown_keys_to_extra preserves every value: with extra_key not
\* None, each value of the input dict appears among the values of the result's
\* top level or of the extra_key bucket.
C24_EveryValuePreserved ==
    (call = "move_unknown_keys_to_extra" /\ pc = "returned" /\ ~args.extra_key.none) =>
        \A i \in DOMAIN args.data : args.data[i].v \in ResultValues(outcome.value.result)

\* C24, as far as it holds: every value is preserved unless the dict has both
\* a key that gets a type suffix and a string key spelled like the suffixed
\* name.
C24_PreservedUnlessSuffixTaken ==
    (call = "move_unknown_keys_to_extra" /\ pc = "returned" /\ ~args.extra_key.none
        /\ ~({StrKey(<<"1">>), IntKey(<<"1">>), StrKey(<<"1", "__int">>)} \subseteq dict_keys(args.data))) =>
        \A i \in DOMAIN args.data : args.data[i].v \in ResultValues(outcome.value.result)

\* C24: for {"1": v1, 1: v2, "1__int": v3} with "1" allowed, the value of the
\* int key is gone from the result.
C24_ValueLost ==
    /\ call = "move_unknown_keys_to_extra" /\ pc = "returned"
    /\ args.data = <<Item(StrKey(<<"1">>), "v1"), Item(IntKey(<<"1">>), "v2"),
                     Item(StrKey(<<"1", "__int">>), "v3")>>
    /\ args.allowed_keys = {StrKey(<<"1">>)}
    /\ args.extra_key = [none |-> FALSE, str |-> <<"e">>]
    /\ outcome.value.result =
           <<Item(<<"1">>, Plain("v1")),
             Item(<<"e">>, ExtraDict(<<Item(<<"1", "__int">>, "v3")>>))>>

\* the date n months after dt, its day cut to the length of the month reached
MonthsLater(dt, n) ==
    LET index == dt.y * 12 + (dt.m - 1) + n
        y == index \div 12
        m == (index % 12) + 1
    IN  DateOf(y, m, IF dt.d > MonthLength(y, m) THEN MonthLength(y, m) ELSE dt.d)

\* the date n units of date_part after dt
UnitsLater(dt, n, date_part) ==
    CASE date_part = "DAY" -> fromordinal(toordinal(dt) + n)
      [] date_part = "WEEK" -> fromordinal(toordinal(dt) + 7 * n)
      [] date_part = "MONTH" -> MonthsLater(dt, n)
      [] date_part = "QUARTER" -> MonthsLater(dt, 3 * n)
      [] date_part = "YEAR" -> MonthsLater(dt, 12 * n)

\* dt lies beyond end in the direction of k
PassesEnd(dt, end, k) ==
    IF k > 0 THEN toordinal(dt) > toordinal(end) ELSE toordinal(dt) < toordinal(end)

\* C25: for interval k # 0 and a date_part P, generate_date_array returns, in
\* order, exactly the dates start + i*k units of P (i = 0, 1, 2, ...) that do
\* not pass end in the direction of k, each computed from start; [start] when
\* start = end; [] when end lies in the opposite direction of k; and the call
\* ends.
C25_GeneratedDates ==
    (call = "generate_date_array" /\ args.interval # 0 /\ args.date_part \in DateParts) =>
        LET dates == outcome.value
            start == args.date_start
            k == args.interval
        IN  /\ pc = "returned"
            /\ start = args.date_end => dates = <<start>>
            /\ PassesEnd(start, args.date_end, k) => dates = <<>>
            /\ \A i \in DOMAIN dates :
                  /\ dates[i] = UnitsLater(start, (i - 1) * k, args.date_part)
                  /\ ~PassesEnd(dates[i], args.date_end, k)
            /\ \A i \in Len(dates)..(Len(dates) + 2) :
                  PassesEnd(UnitsLater(start, i * k, args.date_part), args.date_end, k)

\* C25 witness: monthly from 2024-01-31 to 2024-03-31 gives January 31st,
\* February 29th and March 31st.
C25_Witness ==
    /\ call = "generate_date_array" /\ pc = "returned"
    /\ args.date_start = DateOf(2024, 1, 31) /\ args.date_end = DateOf(2024, 3, 31)
    /\ args.interval = 1 /\ args.date_part = "MONTH"
    /\ outcome.value = <<DateOf(2024, 1, 31), DateOf(2024, 2, 29), DateOf(2024, 3, 31)>>

\* the child a traversed root keeps for v before filtering: processed one
\* level down, or v itself at the depth limit
RootChild(v) ==
    LET root_depth == IF args.max_depth.none THEN NoneInt ELSE SomeInt(0)
    IN  IF can_recurse(args.max_depth, root_depth)
        THEN process(v, child_depth(root_depth), args)
        ELSE v

\* v is a list, tuple, set or frozenset
SequenceOrSet(v) == v.kind \in (SequenceKinds \cup SetLikeKinds)

\* the last call was a prune_data call that traversed the data and returned
PrunedByTraversal == call = "prune_data" /\ pc = "returned" /\ outcome.traversed

\* C26: inside a mapping the value predicate is applied to a processed child
\* only when the child is not a list, tuple, set or frozenset: such a child
\* stays under its key even when the predicate matches it (unless its key is
\* removed or it is dropped as empty), any other matching child is dropped; a
\* matching sequence or set that is an element of a list, tuple or set is
\* dropped.
C26_MappingExemptsSequencesAndSets ==
    PrunedByTraversal =>
        LET out == outcome.value
        IN  /\ IsMapping(before) =>
                  \A i \in DOMAIN before.items :
                      LET child == RootChild(before.items[i])
                          present == \E j \in DOMAIN out.keys :
                                        out.keys[j] = before.keys[i] /\ out.items[j] = child
                      IN  /\ (/\ SequenceOrSet(child)
                              /\ ~key_predicate(args.keys, before.keys[i])
                              /\ ~(args.remove_empty /\ is_empty(child))) => present
                          /\ (~SequenceOrSet(child) /\ value_predicate(args.values, child)) =>
                                 \A j \in DOMAIN out.keys : out.keys[j] # before.keys[i]
            /\ IsSequence(before) =>
                  \A i \in DOMAIN before.items :
                      LET child == RootChild(before.items[i])
                      IN  (SequenceOrSet(child) /\ value_predicate(args.values, child)) =>
                              \A j \in DOMAIN out.items : out.items[j] # child
            /\ IsSetLike(before) =>
                  \A item \in SetMembers(before) :
                      (SequenceOrSet(item) /\ item.kind \in {"set", "frozenset"}
                          /\ value_predicate(args.values, item)) => item \notin out.elems

\* C26 witness: {"keep": []} pruned of the values equal to [] keeps the empty
\* list under its key.
C26_Witness ==
    /\ PrunedByTraversal /\ ~args.remove_empty
    /\ before = MapOf("dict", <<"keep">>, <<SeqOf("list", <<>>)>>)
    /\ value_predicate(args.values, SeqOf("list", <<>>))
    /\ outcome.value = before

\* C26 witness for sequences: [[]] pruned of the values equal to [] loses its
\* element.
C26_ElementDropped ==
    /\ PrunedByTraversal /\ ~args.remove_empty
    /\ before = SeqOf("list", <<SeqOf("list", <<>>)>>)
    /\ value_predicate(args.values, SeqOf("list", <<>>))
    /\ outcome.value = SeqOf("list", <<>>)

\* the tag the printer shows for a value: "[dict]" for mappings, "[list]" for
\* lists and tuples, "[set]" for sets, none for a primitive
TagOf(v) ==
    IF v.kind \in MappingKinds THEN "[dict]"
    ELSE IF v.kind \in SequenceKinds THEN "[list]"
    ELSE IF v.kind \in SetLikeKinds THEN "[set]"
    ELSE ""

\* walk printed and returned
WalkPrinted == call = "walk" /\ pc = "returned" /\ "written" \in DOMAIN outcome

NextFrame == get_relative_date_frame(args.date_part, args.n + 1, args.date_from)

\* C28: consecutive offsets tile the calendar: for DAY, WEEK, MONTH, QUARTER
\* and YEAR, every anchor and every n, the day after the end of the frame for n
\* is the start of the frame for n + 1; the frame for n = 0 contains the anchor.
C28_FramesTile ==
    (call = "get_relative_date_frame" /\ pc = "returned") =>
        LET start == IsoDate(outcome.value[1])
            end == IsoDate(outcome.value[2])
        IN  /\ NextFrame.status = "returned"
            /\ fromordinal(toordinal(end) + 1) = IsoDate(NextFrame.value[1])
            /\ args.n = 0 =>
                  /\ toordinal(start) <= toordinal(args.date_from)
                  /\ toordinal(args.date_from) <= toordinal(end)

\* C28 witness: anchored on 2024-01-31, the MONTH frame for n = 0 ends on
\* 2024-01-31 and the frame for n = 1 is February 2024, a month the 31st
\* does not exist in.
C28_Witness ==
    /\ FrameReturned("MONTH")
    /\ args.date_from = DateOf(2024, 1, 31) /\ args.n = 0
    /\ outcome.value = <<IsoOf(2024, 1, 1), IsoOf(2024, 1, 31)>>
    /\ NextFrame.value = <<IsoOf(2024, 2, 1), IsoOf(2024, 2, 29)>>

\* the containers directly inside a container
ContainerChildren(v) ==
    {c \in (IF v.kind \in SetLikeKinds THEN v.elems
            ELSE {v.items[i] : i \in DOMAIN v.items}) : IsContainer(c)}

\* the depth of the deepest container of a container value, the root being 0
RECURSIVE DeepestContainer(_)
DeepestContainer(v) ==
    IF ContainerChildren(v) = {} THEN 0
    ELSE 1 + (CHOOSE d \in 0..MaxNest :
                 /\ \E c \in ContainerChildren(v) : DeepestContainer(c) = d
                 /\ \A c \in ContainerChildren(v) : DeepestContainer(c) <= d)

\* prune_data was called with a depth limit no smaller than the depth of the
\* input's deepest container
LimitCoversInput ==
    /\ call = "prune_data" /\ pc \in {"returned", "raised"}
    /\ IsContainer(before)
    /\ ~args.max_depth.none
    /\ args.max_depth.n >= DeepestContainer(before)

\* C29: a sufficiently large depth limit is equivalent to no limit: when the
\* deepest container of the input sits at depth D and max_depth >= D, the
\* result equals that of the same call with max_depth=None, whatever the
\* predicates and remove_empty are.
C29_LargeLimitIsNoLimit ==
    LimitCoversInput =>
        LET unlimited == prune_data(before, [args EXCEPT !.max_depth = NoneInt])
        IN  /\ outcome.status = unlimited.status
            /\ outcome.value = unlimited.value

\* C29 witness: a list holding one mapping, pruned with max_depth=1, the depth
\* of that mapping: the mapping inside the result is not the one of the input.
C29_Witness ==
    /\ LimitCoversInput /\ pc = "returned"
    /\ args.max_depth = SomeInt(1) /\ DeepestContainer(before) = 1
    /\ before.kind = "list" /\ Len(before.items) = 1 /\ IsMapping(before.items[1])
    /\ outcome.value.kind = "list" /\ Len(outcome.value.items) = 1
    /\ outcome.value.items[1] # before.items[1]

\* OnlyRemoved(out, inp): out is inp with some keys, items or elements taken
\* away, here and in the children that stay: the keys of an output mapping are
\* a subsequence of the input's keys, each with an image of its value; the
\* items of an output list or tuple are images of a subsequence of the input's
\* items; each element of an output set is the image of an input element; a
\* primitive is unchanged. MatchesFrom pairs the output positions from i on
\* with increasing input positions from j on.
RECURSIVE OnlyRemoved(_, _)
RECURSIVE MatchesFrom(_, _, _, _)
MatchesFrom(out, inp, i, j) ==
    IF i > Len(out.items) THEN TRUE
    ELSE \E k \in j..Len(inp.items) :
            /\ IsMapping(inp) => out.keys[i] = inp.keys[k]
            /\ OnlyRemoved(out.items[i], inp.items[k])
            /\ MatchesFrom(out, inp, i + 1, k + 1)

OnlyRemoved(out, inp) ==
    CASE IsMapping(inp) -> IsMapping(out) /\ MatchesFrom(out, inp, 1, 1)
      [] IsSequence(inp) -> out.kind = inp.kind /\ MatchesFrom(out, inp, 1, 1)
      [] IsSetLike(inp) ->
             /\ out.kind = inp.kind
             /\ \A e \in out.elems : \E f \in inp.elems : OnlyRemoved(e, f)
      [] OTHER -> out = inp

\* C30: prune_data only removes, never adds or reorders: the keys of every
\* output mapping are a subsequence, in insertion order, of the keys of the
\* corresponding input mapping, and the elements of every output list or tuple
\* are the processed images of a subsequence of the input elements in order.
C30_OnlyRemoves ==
    (call = "prune_data" /\ pc = "returned") => OnlyRemoved(outcome.value, before)

\* C30 witness: a mapping with the keys "secret" and "keep", in that order,
\* comes back with "keep" alone, its value being a shortened image of the
\* input's value.
C30_Witness ==
    /\ call = "prune_data" /\ pc = "returned" /\ outcome.traversed
    /\ IsMapping(before) /\ before.keys = <<"secret", "keep">>
    /\ IsMapping(outcome.value) /\ outcome.value.keys = <<"keep">>
    /\ IsSequence(before.items[2])
    /\ outcome.value.items[1] # before.items[2]
    /\ OnlyRemoved(outcome.value.items[1], before.items[2])

====
